---------------------------- MODULE Spec2Model ----------------------------
(***************************************************************************)
(* glslViewer: the live-reload engine and its three threads.               *)
(*                                                                         *)
(*   main.cpp     (src/unnamed/part_000)  globals, console commands, the   *)
(*                render loop, fileWatcherThread, runCmd, cinWatcherThread *)
(*   sandbox.cpp  (src/src/sandbox.cpp)   Sandbox: setup, reloadShaders,   *)
(*                _updateBuffers, render, renderDone, onFileChange         *)
(*                                                                         *)
(* Text is kept as TLA+ strings (Len, SubSeq and \o work on them), times   *)
(* and float arguments are in tenths, a shader source is the set of the    *)
(* markers that the engine looks for in it.                                *)
(***************************************************************************)
EXTENDS Integers, Sequences, FiniteSets, TLC

VARIABLES
    bRun,           \* std::atomic<bool> bRun
    window,         \* the GL window: open (isGL()), width, height
    files,          \* WatchFileList files
    filesMutex,     \* std::mutex filesMutex: its owner, or "free"
    fileChanged,    \* int fileChanged
    consoleMutex,   \* std::mutex consoleMutex: its owner, or "free"
    outputFile,     \* std::string outputFile (-o)
    fullFps,        \* bool fullFps
    timeOut,        \* bool timeOut
    execute_exit,   \* bool execute_exit (-E)
    sandbox,        \* Sandbox sandbox
    disk,           \* the file system: path -> [mtime, content]
    main,           \* the main (render) thread: where it is in main()
    watcher,        \* fileWatcherThread: pc, i, date
    cmds_arguments, \* std::vector<std::string> cmds_arguments (-e, -E)
    cmd,            \* per dispatching thread: runCmd's position and locals
    memFault        \* an out-of-range vector access ended the process

vars == <<bRun, window, files, filesMutex, fileChanged, consoleMutex,
          outputFile, fullFps, timeOut, execute_exit, sandbox, disk, main,
          watcher, cmds_arguments, cmd, memFault>>

---------------------------------------------------------------------------
(* Bounds of the model.                                                    *)

\* how many times the environment saves (touches) a watched file
MaxTouch == 2
\* how many lines the dispatching threads receive, in all
MaxLines == 2

---------------------------------------------------------------------------
(* tools/text: the string helpers the commands use.                        *)

Min(a, b) == IF a < b THEN a ELSE b

\* beginsWith(_stringA, _stringB): B is a prefix of A, case-sensitive
beginsWith(a, b) ==
    /\ Len(b) <= Len(a)
    /\ SubSeq(a, 1, Len(b)) = b

\* std::string::find(_sep, start), 1-based; 0 stands for npos
find(s, sep, start) ==
    IF \E k \in start..Len(s) : SubSeq(s, k, k) = sep
    THEN CHOOSE k \in start..Len(s) :
            /\ SubSeq(s, k, k) = sep
            /\ \A j \in start..(k - 1) : SubSeq(s, j, j) # sep
    ELSE 0

RECURSIVE splitFrom(_, _, _)
splitFrom(s, sep, start) ==
    LET end == find(s, sep, start) IN
    IF end # 0
    THEN (IF end # start THEN <<SubSeq(s, start, end - 1)>> ELSE <<>>)
         \o splitFrom(s, sep, end + 1)
    ELSE IF start <= Len(s) THEN <<SubSeq(s, start, Len(s))>> ELSE <<>>

\* split(_string, _sep): the non-empty tokens between separators
split(s, sep) == splitFrom(s, sep, 1)

Digits == <<"0", "1", "2", "3", "4", "5", "6", "7", "8", "9">>

isDigitChar(c) == \E d \in 1..10 : Digits[d] = c

digitValue(c) == (CHOOSE d \in 1..10 : Digits[d] = c) - 1

\* isDigit(_string): every character is a decimal digit
isDigit(s) == Len(s) > 0 /\ \A k \in 1..Len(s) : isDigitChar(SubSeq(s, k, k))

RECURSIVE toIntFrom(_, _, _)
toIntFrom(s, k, acc) ==
    IF k > Len(s) \/ ~isDigitChar(SubSeq(s, k, k)) THEN acc
    ELSE toIntFrom(s, k + 1, 10 * acc + digitValue(SubSeq(s, k, k)))

\* toInt(_string): the leading decimal digits, 0 when there are none
toInt(s) == toIntFrom(s, 1, 0)

\* toFloat(_string), in tenths: the sign, the integer part and one
\* fractional digit; text that is no number reads as 0
toFloat(s) ==
    LET neg == beginsWith(s, "-")
        u   == IF neg THEN SubSeq(s, 2, Len(s)) ELSE s
        dot == find(u, ".", 1)
        ip  == IF dot = 0 THEN u ELSE SubSeq(u, 1, dot - 1)
        fp  == IF dot = 0 \/ dot = Len(u) THEN "0" ELSE SubSeq(u, dot + 1, dot + 1)
        v   == 10 * toInt(ip) + toInt(fp)
    IN  IF neg THEN 0 - v ELSE v


---------------------------------------------------------------------------
(* The command table: declareCommands() registers the first 26 commands,   *)
(* Sandbox::setup the other 18, in this order.  mutex is the constructor's *)
(* last argument; the registrations that leave it out take its default.    *)

Cmd(token, mtx) == [begins_with |-> token, mutex |-> mtx]

commands ==
    << Cmd("help", FALSE), Cmd("version", FALSE), Cmd("window_width", FALSE),
       Cmd("window_height", FALSE), Cmd("pixel_density", FALSE),
       Cmd("screen_size", FALSE), Cmd("viewport", FALSE), Cmd("mouse", FALSE),
       Cmd("fps", FALSE), Cmd("delta", FALSE), Cmd("time", FALSE),
       Cmd("date", FALSE), Cmd("files", FALSE), Cmd("reload", FALSE),
       Cmd("frag", FALSE), Cmd("vert", FALSE), Cmd("dependencies", FALSE),
       Cmd("update", FALSE), Cmd("wait", TRUE), Cmd("fullFps", FALSE),
       Cmd("cursor", FALSE), Cmd("screenshot", FALSE), Cmd("sequence", FALSE),
       Cmd("q", FALSE), Cmd("quit", FALSE), Cmd("exit", FALSE),
       Cmd("debug", FALSE), Cmd("histogram", FALSE), Cmd("defines", FALSE),
       Cmd("define,", FALSE), Cmd("undefine,", FALSE), Cmd("uniforms", FALSE),
       Cmd("textures", FALSE), Cmd("buffers", FALSE), Cmd("lights", TRUE),
       Cmd("light_position", TRUE), Cmd("light_color", TRUE),
       Cmd("light_falloff", TRUE), Cmd("light_intensity", TRUE),
       Cmd("camera_distance", TRUE), Cmd("camera_fov", TRUE),
       Cmd("camera_position", TRUE), Cmd("camera_exposure", TRUE) >>

\* the commands that only print when the line is exactly their name
QueryCommands ==
    {"version", "window_width", "window_height", "pixel_density",
     "screen_size", "viewport", "mouse", "fps", "delta", "time", "date",
     "files", "defines", "lights"}

\* the handlers that run over several scheduling steps (they sleep or poll)
BlockingCommands == {"reload", "sequence"}

---------------------------------------------------------------------------
(* Sandbox members used by the commands.                                   *)

\* Sandbox::flagChange
flagChange(sb) == [sb EXCEPT !.m_change = TRUE]

\* Shader::addDefine / Shader::delDefine on one program
shaderAddDefine(sh, d, value) ==
    [sh EXCEPT !.defines = {x \in @ : x[1] # d} \cup {<<d, value>>}]

shaderDelDefine(sh, d) == [sh EXCEPT !.defines = {x \in @ : x[1] # d}]

\* Sandbox::addDefine: every pass shader below m_buffers_total, then the
\* canvas (or the scene) and the post-processing program.  fault is set
\* when m_buffers_shaders is indexed past its end.
addDefine(sb, d, value) ==
    LET n  == sb.m_buffers_total
        ok == n <= Len(sb.m_buffers_shaders)
    IN  [fault |-> ~ok,
         sb |-> [sb EXCEPT
            !.m_buffers_shaders =
                [i \in 1..Len(@) |->
                    IF i <= n THEN shaderAddDefine(@[i], d, value) ELSE @[i]],
            !.m_canvas_shader =
                IF sb.geom_index = -1 THEN shaderAddDefine(@, d, value) ELSE @,
            !.m_scene_defines =
                IF sb.geom_index # -1
                THEN {x \in @ : x[1] # d} \cup {<<d, value>>} ELSE @,
            !.m_postprocessing_shader = shaderAddDefine(@, d, value)]]

\* Sandbox::delDefine
delDefine(sb, d) ==
    LET n  == sb.m_buffers_total
        ok == n <= Len(sb.m_buffers_shaders)
    IN  [fault |-> ~ok,
         sb |-> [sb EXCEPT
            !.m_buffers_shaders =
                [i \in 1..Len(@) |->
                    IF i <= n THEN shaderDelDefine(@[i], d) ELSE @[i]],
            !.m_canvas_shader =
                IF sb.geom_index = -1 THEN shaderDelDefine(@, d) ELSE @,
            !.m_scene_defines =
                IF sb.geom_index # -1 THEN {x \in @ : x[1] # d} ELSE @,
            !.m_postprocessing_shader = shaderDelDefine(@, d)]]

---------------------------------------------------------------------------
(* The command handlers that run to their end in one step.  A handler      *)
(* reads and writes the globals and the sandbox; g is that state:          *)
(*   [bRun, timeOut, fullFps, outputFile, sandbox, disk, fault]            *)
(* and the result is [ret |-> the handler's bool, g |-> the state after].  *)

Ret(r, g) == [ret |-> r, g |-> g]

WithSandbox(g, sb) == [g EXCEPT !.sandbox = sb]

OnOff(v) == v = "on"

\* "frag" and "vert": print the source, print numbered lines, or write the
\* source to the named file
sourceCommand(token, line, g) ==
    LET values == split(line, ",")
        src    == IF token = "frag" THEN g.sandbox.m_frag_source
                  ELSE g.sandbox.m_vert_source
    IN  IF line = token THEN Ret(TRUE, g)
        ELSE IF Len(values) = 2
        THEN IF isDigit(values[2]) THEN Ret(TRUE, g)
             ELSE Ret(TRUE,
                      IF values[2] \in DOMAIN g.disk
                      THEN [g EXCEPT !.disk[values[2]] =
                               [@ EXCEPT !.exists = TRUE, !.source = src,
                                         !.includes = <<>>]]
                      ELSE g)
        ELSE Ret(FALSE, g)

\* "debug"
debugCommand(line, g) ==
    LET values == split(line, ",")
        sb     == g.sandbox
        on     == OnOff(values[2])
        dbg    == IF sb.geom_index = -1 THEN sb
                  ELSE [sb EXCEPT
                          !.showGrid = on, !.showAxis = on, !.showBBoxes = on,
                          !.m_scene_defines =
                              IF on THEN {x \in @ : x[1] # "DEBUG"}
                                         \cup {<<"DEBUG", values[2]>>}
                              ELSE {x \in @ : x[1] # "DEBUG"}]
    IN  IF line = "debug" THEN Ret(TRUE, g)
        ELSE IF Len(values) = 2
        THEN Ret(FALSE, WithSandbox(g,
                 [dbg EXCEPT !.m_showPasses = on, !.m_showTextures = on,
                             !.m_histogram = on]))
        ELSE Ret(FALSE, g)

\* "define,": with one argument the name and the value are the two words
\* of it, and a missing second word is read past the end of the vector
defineCommand(line, g) ==
    LET values == split(line, ",")
        v      == split(values[2], " ")
        r2     == addDefine(g.sandbox, v[1], v[2])
        r3     == addDefine(g.sandbox, values[2], values[3])
    IN  IF Len(values) = 2
        THEN IF Len(v) < 2 THEN Ret(TRUE, [g EXCEPT !.fault = TRUE])
             ELSE Ret(TRUE, [g EXCEPT !.sandbox = r2.sb,
                                      !.fault = @ \/ r2.fault])
        ELSE IF Len(values) = 3
        THEN Ret(TRUE, [g EXCEPT !.sandbox = r3.sb, !.fault = @ \/ r3.fault])
        ELSE Ret(FALSE, g)

\* "undefine,"
undefineCommand(line, g) ==
    LET values == split(line, ",")
        r      == delDefine(g.sandbox, values[2])
    IN  IF Len(values) = 2
        THEN Ret(TRUE, [g EXCEPT !.sandbox = r.sb, !.fault = @ \/ r.fault])
        ELSE Ret(FALSE, g)

\* "light_position", "light_color", "light_falloff", "light_intensity":
\* every branch returns true
lightCommand(token, line, g) ==
    LET values == split(line, ",")
        lights == g.sandbox.lights
        field  == SubSeq(token, 7, Len(token))
        vec    == token \in {"light_position", "light_color"}
        one    == IF vec THEN 4 ELSE 2
        i      == toInt(values[2]) + 1
        set(k, val) ==
            IF k <= Len(lights)
            THEN WithSandbox(g, [g.sandbox EXCEPT
                     !.lights[k] = [@ EXCEPT ![field] = val, !.bChange = TRUE]])
            ELSE g
    IN  IF Len(values) = one
        THEN Ret(TRUE, set(1, IF vec
                              THEN <<toFloat(values[2]), toFloat(values[3]),
                                     toFloat(values[4])>>
                              ELSE toFloat(values[2])))
        ELSE IF Len(values) = 5
        THEN Ret(TRUE, set(i, IF vec
                              THEN <<toFloat(values[3]), toFloat(values[4]),
                                     toFloat(values[5])>>
                              ELSE toFloat(values[3])))
        ELSE Ret(TRUE, g)

\* "camera_distance", "camera_fov", "camera_position", "camera_exposure":
\* every branch returns true
cameraCommand(token, line, g) ==
    LET values == split(line, ",")
        field  == SubSeq(token, 8, Len(token))
        vec    == token \in {"camera_position", "camera_exposure"}
    IN  IF Len(values) = (IF vec THEN 4 ELSE 2)
        THEN Ret(TRUE, WithSandbox(g, [g.sandbox EXCEPT
                     !.camera[field] =
                        IF vec
                        THEN <<toFloat(values[2]), toFloat(values[3]),
                               toFloat(values[4])>>
                        ELSE toFloat(values[2]),
                     !.camera.bChange = TRUE]))
        ELSE Ret(TRUE, g)

\* the handler registered under token, applied to line
exec(token, line, g) ==
    LET values == split(line, ",")
        sb     == g.sandbox
    IN  CASE token = "help" -> Ret(line = "help", g)
          [] token \in QueryCommands -> Ret(line = token, g)
          [] token \in {"frag", "vert"} -> sourceCommand(token, line, g)
          [] token = "dependencies" ->
                Ret(line \in {"dependencies", "dependencies,frag",
                              "dependencies,vert"}, g)
          [] token = "update" ->
                Ret(FALSE, IF line = "update"
                           THEN WithSandbox(g, flagChange(sb)) ELSE g)
          [] token = "wait" -> Ret(FALSE, g)
          [] token = "fullFps" ->
                IF line = "fullFps" THEN Ret(TRUE, g)
                ELSE Ret(FALSE, IF Len(values) = 2
                                THEN [g EXCEPT !.fullFps = OnOff(values[2])]
                                ELSE g)
          [] token = "cursor" ->
                IF line = "cursor" THEN Ret(TRUE, g)
                ELSE Ret(FALSE, IF Len(values) = 2
                                THEN WithSandbox(g,
                                       [sb EXCEPT !.cursor = OnOff(values[2])])
                                ELSE g)
          [] token = "screenshot" ->
                IF line = "screenshot" /\ g.outputFile # ""
                THEN Ret(TRUE, WithSandbox(g,
                            [sb EXCEPT !.screenshotFile = g.outputFile]))
                ELSE IF Len(values) = 2
                THEN Ret(TRUE, WithSandbox(g,
                            [sb EXCEPT !.screenshotFile = values[2]]))
                ELSE Ret(FALSE, g)
          [] token = "q" ->
                IF line = "q" THEN Ret(TRUE, [g EXCEPT !.bRun = FALSE])
                ELSE Ret(FALSE, g)
          [] token \in {"quit", "exit"} ->
                IF line = token THEN Ret(TRUE, [g EXCEPT !.timeOut = TRUE])
                ELSE Ret(FALSE, g)
          [] token = "debug" -> debugCommand(line, g)
          [] token = "histogram" ->
                IF line = "histogram" THEN Ret(TRUE, g)
                ELSE Ret(FALSE, IF Len(values) = 2
                                THEN WithSandbox(g,
                                    [sb EXCEPT !.m_histogram = OnOff(values[2])])
                                ELSE g)
          [] token = "define," -> defineCommand(line, g)
          [] token = "undefine," -> undefineCommand(line, g)
          [] token = "uniforms" -> Ret(TRUE, g)
          [] token = "textures" ->
                IF line = "textures" THEN Ret(TRUE, g)
                ELSE Ret(FALSE, IF Len(values) = 2
                                THEN WithSandbox(g,
                                    [sb EXCEPT !.m_showTextures = OnOff(values[2])])
                                ELSE g)
          [] token = "buffers" ->
                IF line = "buffers" THEN Ret(TRUE, g)
                ELSE Ret(FALSE, IF Len(values) = 2
                                THEN WithSandbox(g,
                                    [sb EXCEPT !.m_showPasses = OnOff(values[2])])
                                ELSE g)
          [] beginsWith(token, "light_") -> lightCommand(token, line, g)
          [] beginsWith(token, "camera_") -> cameraCommand(token, line, g)
          [] OTHER -> Ret(FALSE, g)

\* the handlers that take consoleMutex themselves, and when
locksConsole(token, line) ==
    \/ token \in {"fullFps", "cursor"} /\ line # token
                                       /\ Len(split(line, ",")) = 2
    \/ token = "screenshot" /\ Len(split(line, ",")) = 2
                            /\ ~(line = "screenshot")

---------------------------------------------------------------------------
(* Recording (Sandbox::record, getRecordedPorcentage).  With the times in  *)
(* tenths and fps in tenths, the record times are kept in units of         *)
(* 1/(10*fps) second, in which one frame (m_record_fdelta = 1/fps) is 100. *)

record(sb, start, end, fps) ==
    [sb EXCEPT !.m_record_fdelta = 100,
               !.m_record_start = start * fps,
               !.m_record_head = start * fps,
               !.m_record_end = end * fps,
               !.m_record_counter = 0,
               !.m_record = TRUE]

\* ((m_record_head - m_record_start) / (m_record_end - m_record_start)) * 100
\* as an int; the quotient by zero has no defined conversion
PorcentageDefined(sb) == sb.m_record_end # sb.m_record_start

getRecordedPorcentage(sb) ==
    ((sb.m_record_head - sb.m_record_start) * 100)
        \div (sb.m_record_end - sb.m_record_start)

---------------------------------------------------------------------------
(* Uniforms::parseLine: name,v1[,v2,v3,v4] creates or updates the uniform  *)
(* name with the values as floats and marks it changed.                    *)

parseLine(sb, line) ==
    LET values == split(line, ",")
        name   == values[1]
        k      == Len(values) - 1
        entry  == [size |-> k,
                   value |-> [j \in 1..k |-> toFloat(values[j + 1])],
                   bChange |-> TRUE]
    IN  IF Len(values) >= 2 /\ k <= 4
        THEN [sb EXCEPT !.uniforms_data =
                 [n \in DOMAIN @ \cup {name} |->
                     IF n = name THEN entry ELSE @[n]]]
        ELSE sb

---------------------------------------------------------------------------
(* runCmd, run by the console thread (cinWatcherThread) and by the OSC     *)
(* listener.  cmd[t] holds the thread's place in runCmd and the locals:    *)
(*   pc       wait | idle | scan | exec | reload_all | reload_all_set |    *)
(*            reload_one | reload_one_set | seq_poll | fallback | return   *)
(*   line     _cmd            i  the for loop's index (from 1)             *)
(*   resolve  bool resolve    k  a handler's own loop index (from 0)       *)
(*   invoked  the handlers called for this line, in order: [i, ret], ret   *)
(*            "running" until the handler has returned                     *)
(*   parsed   parseLine was called for this line                           *)
(*   argi     the start-up command being run (0: an interactive line)      *)
(*   n        lines received so far                                        *)
(*   wasFullFps  history, kept while the handler of "reload" runs: fullFps *)
(*            as the handler found it                                      *)

\* the process runs: no stray access has killed it and main() has not exited
Alive == ~memFault /\ main.pc # "exited"

Threads == {"console", "osc"}

NoLine == [pc |-> "idle", line |-> "", i |-> 0, resolve |-> FALSE, k |-> 0,
           invoked |-> <<>>, parsed |-> FALSE, argi |-> 0, n |-> 0,
           wasFullFps |-> FALSE]

\* entering runCmd(_cmd, _mutex)
Enter(c, line) ==
    [c EXCEPT !.pc = "scan", !.line = line, !.i = 1, !.resolve = FALSE,
              !.k = 0, !.invoked = <<>>, !.parsed = FALSE]

\* a slip: a command is tried only when the line's first word is its token
mutantNextMatchWholeWord(line, i) ==
    LET M == {j \in i..Len(commands) :
                 split(line, ",")[1] = commands[j].begins_with}
    IN  IF M = {} THEN 0 ELSE CHOOSE j \in M : \A m \in M : j <= m

\* the next command at or after i whose token begins the line, 0 if none
nextMatch(line, i) ==
    LET M == {j \in i..Len(commands) : beginsWith(line, commands[j].begins_with)}
    IN  IF M = {} THEN 0 ELSE CHOOSE j \in M : \A m \in M : j <= m

\* the globals a handler works on
Globals ==
    [bRun |-> bRun, timeOut |-> timeOut, fullFps |-> fullFps,
     outputFile |-> outputFile, sandbox |-> sandbox, disk |-> disk,
     fault |-> memFault]

SetGlobals(g) ==
    /\ bRun' = g.bRun
    /\ timeOut' = g.timeOut
    /\ fullFps' = g.fullFps
    /\ sandbox' = g.sandbox
    /\ disk' = g.disk
    /\ memFault' = g.fault

\* after commands[i].exec returned r: unlock, then break or go on
afterExec(c, r) ==
    LET c1 == [c EXCEPT !.resolve = r,
                        !.invoked[Len(c.invoked)].ret =
                            IF r THEN "handled" ELSE "passed"]
    IN  IF r THEN [c1 EXCEPT !.pc = "return"]
        ELSE [c1 EXCEPT !.pc = "scan", !.i = @ + 1]

Unlocked(t, c) ==
    IF commands[c.i].mutex /\ consoleMutex = t THEN "free" ELSE consoleMutex

\* a line arrives: std::getline on the console, a message on the OSC port
CmdReceive(t, lines) ==
    /\ Alive
    /\ cmd[t].pc = "idle"
    /\ cmd["console"].n + cmd["osc"].n < MaxLines
    /\ \E line \in lines :
          cmd' = [cmd EXCEPT ![t] = [Enter(@, line) EXCEPT !.n = @ + 1]]
    /\ UNCHANGED <<bRun, window, files, filesMutex, fileChanged,
                   consoleMutex, outputFile, fullFps, timeOut, execute_exit,
                   sandbox, disk, main, watcher, cmds_arguments, memFault>>

\* a slip: the dispatcher takes the mutex for every command
mutantCmdScanAlwaysLocks(t) ==
    LET c == cmd[t]
        j == nextMatch(c.line, c.i)
    IN  /\ Alive
        /\ c.pc = "scan"
        /\ IF j = 0
           THEN /\ cmd' = [cmd EXCEPT ![t].pc = IF c.resolve THEN "return"
                                                ELSE "fallback"]
                /\ UNCHANGED consoleMutex
           ELSE /\ consoleMutex = "free"
                /\ consoleMutex' = t
                /\ cmd' = [cmd EXCEPT ![t].pc = "exec", ![t].i = j]
        /\ UNCHANGED <<bRun, window, files, filesMutex, fileChanged,
                       outputFile, fullFps, timeOut, execute_exit, sandbox,
                       disk, main, watcher, cmds_arguments, memFault>>

\* the for loop up to the next matching command, and its lock
CmdScan(t) ==
    LET c == cmd[t]
        j == nextMatch(c.line, c.i)
    IN  /\ Alive
        /\ c.pc = "scan"
        /\ IF j = 0
           THEN /\ cmd' = [cmd EXCEPT ![t].pc = IF c.resolve THEN "return"
                                                ELSE "fallback"]
                /\ UNCHANGED consoleMutex
           ELSE /\ commands[j].mutex => consoleMutex = "free"
                /\ consoleMutex' = IF commands[j].mutex THEN t ELSE consoleMutex
                /\ cmd' = [cmd EXCEPT ![t].pc = "exec", ![t].i = j]
        /\ UNCHANGED <<bRun, window, files, filesMutex, fileChanged,
                       outputFile, fullFps, timeOut, execute_exit, sandbox,
                       disk, main, watcher, cmds_arguments, memFault>>

\* commands[i].exec(_cmd): the handler runs to its end, or, for "reload"
\* and "sequence", up to its first sleep
CmdExec(t) ==
    LET c      == [cmd[t] EXCEPT !.invoked =
                      Append(@, [i |-> cmd[t].i, ret |-> "running"])]
        token  == commands[c.i].begins_with
        values == split(c.line, ",")
        from   == toFloat(values[2])
        to     == toFloat(values[3])
        fps    == IF Len(values) = 4 THEN toFloat(values[4]) ELSE 240
        r      == exec(token, c.line, Globals)
    IN  /\ Alive
        /\ cmd[t].pc = "exec"
        /\ IF token = "reload" /\ c.line \in {"reload", "reload,all"}
           THEN /\ fullFps' = TRUE
                /\ cmd' = [cmd EXCEPT ![t] = [c EXCEPT !.pc = "reload_all",
                                                       !.k = 0,
                                                       !.wasFullFps = fullFps]]
                /\ UNCHANGED <<bRun, timeOut, sandbox, disk, memFault,
                               consoleMutex>>
           ELSE IF token = "reload" /\ Len(values) = 2 /\ values[1] = "reload"
           THEN /\ cmd' = [cmd EXCEPT ![t] = [c EXCEPT !.pc = "reload_one",
                                                       !.k = 0]]
                /\ UNCHANGED <<bRun, timeOut, fullFps, sandbox, disk,
                               memFault, consoleMutex>>
           ELSE IF token = "sequence" /\ Len(values) >= 3
           THEN /\ consoleMutex = "free"
                /\ sandbox' = record(sandbox,
                                     IF from >= to THEN 0 ELSE from, to, fps)
                /\ cmd' = [cmd EXCEPT ![t] = [c EXCEPT !.pc = "seq_poll"]]
                /\ UNCHANGED <<bRun, timeOut, fullFps, disk, memFault,
                               consoleMutex>>
           ELSE IF token \in BlockingCommands
           THEN /\ cmd' = [cmd EXCEPT ![t] = afterExec(c, FALSE)]
                /\ consoleMutex' = Unlocked(t, c)
                /\ UNCHANGED <<bRun, timeOut, fullFps, sandbox, disk, memFault>>
           ELSE /\ locksConsole(token, c.line) => consoleMutex = "free"
                /\ SetGlobals(r.g)
                /\ cmd' = [cmd EXCEPT ![t] = afterExec(c, r.ret)]
                /\ consoleMutex' = Unlocked(t, c)
        /\ UNCHANGED <<window, files, filesMutex, fileChanged, outputFile,
                       execute_exit, main, watcher, cmds_arguments>>

\* "reload" / "reload,all": for (i = 0; i < files.size(); i++)
ReloadAllFor(t) ==
    LET c == cmd[t] IN
    /\ Alive
    /\ c.pc = "reload_all"
    /\ IF c.k < Len(files)
       THEN /\ cmd' = [cmd EXCEPT ![t].pc = "reload_all_set"]
            /\ UNCHANGED <<fullFps, consoleMutex>>
       ELSE /\ fullFps' = FALSE
            /\ cmd' = [cmd EXCEPT ![t] =
                         [afterExec(c, TRUE) EXCEPT !.wasFullFps = FALSE]]
            /\ consoleMutex' = Unlocked(t, c)
    /\ UNCHANGED <<bRun, window, files, filesMutex, fileChanged, outputFile,
                   timeOut, execute_exit, sandbox, disk, main, watcher,
                   cmds_arguments, memFault>>

\* filesMutex.lock(); fileChanged = i; filesMutex.unlock(); pal_sleep(...)
ReloadAllSet(t) ==
    LET c == cmd[t] IN
    /\ Alive
    /\ c.pc = "reload_all_set"
    /\ filesMutex = "free"
    /\ fileChanged' = c.k
    /\ cmd' = [cmd EXCEPT ![t].pc = "reload_all", ![t].k = c.k + 1]
    /\ UNCHANGED <<bRun, window, files, filesMutex, consoleMutex,
                   outputFile, fullFps, timeOut, execute_exit, sandbox, disk,
                   main, watcher, cmds_arguments, memFault>>

\* "reload,<path>": the loop that looks for files[i].path == values[1]
ReloadOneFor(t) ==
    LET c      == cmd[t]
        values == split(c.line, ",")
    IN  /\ Alive
        /\ c.pc = "reload_one"
        /\ IF c.k < Len(files)
           THEN /\ cmd' = [cmd EXCEPT
                      ![t].pc = IF files[c.k + 1].path = values[2]
                                THEN "reload_one_set" ELSE "reload_one",
                      ![t].k  = IF files[c.k + 1].path = values[2]
                                THEN c.k ELSE c.k + 1]
                /\ UNCHANGED consoleMutex
           ELSE /\ cmd' = [cmd EXCEPT ![t] = afterExec(c, FALSE)]
                /\ consoleMutex' = Unlocked(t, c)
        /\ UNCHANGED <<bRun, window, files, filesMutex, fileChanged,
                       outputFile, fullFps, timeOut, execute_exit, sandbox,
                       disk, main, watcher, cmds_arguments, memFault>>

\* filesMutex.lock(); fileChanged = i; filesMutex.unlock(); return true;
ReloadOneSet(t) ==
    LET c == cmd[t] IN
    /\ Alive
    /\ c.pc = "reload_one_set"
    /\ filesMutex = "free"
    /\ fileChanged' = c.k
    /\ cmd' = [cmd EXCEPT ![t] = afterExec(c, TRUE)]
    /\ consoleMutex' = Unlocked(t, c)
    /\ UNCHANGED <<bRun, window, files, filesMutex, outputFile, fullFps,
                   timeOut, execute_exit, sandbox, disk, main, watcher,
                   cmds_arguments, memFault>>

\* "sequence": one round of while (pct < 100) { pct = ...; pal_sleep }
SeqPoll(t) ==
    LET c == cmd[t] IN
    /\ Alive
    /\ c.pc = "seq_poll"
    /\ consoleMutex = "free"
    /\ \E done \in BOOLEAN :
          /\ PorcentageDefined(sandbox)
                => (done <=> getRecordedPorcentage(sandbox) >= 100)
          /\ cmd' = [cmd EXCEPT ![t] = IF done THEN afterExec(c, TRUE) ELSE c]
    /\ UNCHANGED <<bRun, window, files, filesMutex, fileChanged,
                   consoleMutex, outputFile, fullFps, timeOut, execute_exit,
                   sandbox, disk, main, watcher, cmds_arguments, memFault>>

\* a slip: a line that no command resolved is dropped
mutantCmdFallbackDropsLine(t) ==
    /\ Alive
    /\ cmd[t].pc = "fallback"
    /\ consoleMutex = "free"
    /\ cmd' = [cmd EXCEPT ![t].pc = "return", ![t].parsed = TRUE]
    /\ UNCHANGED <<bRun, window, files, filesMutex, fileChanged,
                   consoleMutex, outputFile, fullFps, timeOut, execute_exit,
                   sandbox, disk, main, watcher, cmds_arguments, memFault>>

\* if (!resolve) { _mutex.lock(); sandbox.uniforms.parseLine(_cmd); ... }
CmdFallback(t) ==
    /\ Alive
    /\ cmd[t].pc = "fallback"
    /\ consoleMutex = "free"
    /\ sandbox' = parseLine(sandbox, cmd[t].line)
    /\ cmd' = [cmd EXCEPT ![t].pc = "return", ![t].parsed = TRUE]
    /\ UNCHANGED <<bRun, window, files, filesMutex, fileChanged,
                   consoleMutex, outputFile, fullFps, timeOut, execute_exit,
                   disk, main, watcher, cmds_arguments, memFault>>

\* a slip: the thread does not wait for sandbox.isReady()
mutantConsoleStartWithoutWait ==
    /\ Alive
    /\ cmd["console"].pc = "wait"
    /\ cmd' = [cmd EXCEPT !["console"] =
                 IF Len(cmds_arguments) > 0
                 THEN [Enter(@, cmds_arguments[1]) EXCEPT !.argi = 1]
                 ELSE [@ EXCEPT !.pc = "idle"]]
    /\ UNCHANGED <<bRun, window, files, filesMutex, fileChanged,
                   consoleMutex, outputFile, fullFps, timeOut, execute_exit,
                   sandbox, disk, main, watcher, cmds_arguments, memFault>>

\* cinWatcherThread: while (!sandbox.isReady()) pal_sleep; then the first
\* start-up command, if any
ConsoleStart ==
    /\ Alive
    /\ cmd["console"].pc = "wait"
    /\ sandbox.m_initialized
    /\ cmd' = [cmd EXCEPT !["console"] =
                 IF Len(cmds_arguments) > 0
                 THEN [Enter(@, cmds_arguments[1]) EXCEPT !.argi = 1]
                 ELSE [@ EXCEPT !.pc = "idle"]]
    /\ UNCHANGED <<bRun, window, files, filesMutex, fileChanged,
                   consoleMutex, outputFile, fullFps, timeOut, execute_exit,
                   sandbox, disk, main, watcher, cmds_arguments, memFault>>

\* runCmd returns: to the loop over cmds_arguments (and, after its last
\* command, cmds_arguments.clear() and the -E exit), or to the read loop
CmdReturn(t) ==
    LET c == cmd[t] IN
    /\ Alive
    /\ c.pc = "return"
    /\ IF c.argi > 0 /\ c.argi < Len(cmds_arguments)
       THEN /\ cmd' = [cmd EXCEPT ![t] =
                        [Enter(c, cmds_arguments[c.argi + 1])
                            EXCEPT !.argi = c.argi + 1]]
            /\ UNCHANGED <<cmds_arguments, timeOut>>
       ELSE IF c.argi > 0
       THEN /\ cmd' = [cmd EXCEPT ![t].pc = "idle", ![t].argi = 0]
            /\ cmds_arguments' = <<>>
            /\ timeOut' = (timeOut \/ execute_exit)
       ELSE /\ cmd' = [cmd EXCEPT ![t].pc = "idle"]
            /\ UNCHANGED <<cmds_arguments, timeOut>>
    /\ UNCHANGED <<bRun, window, files, filesMutex, fileChanged,
                   consoleMutex, outputFile, fullFps, execute_exit, sandbox,
                   disk, main, watcher, memFault>>

---------------------------------------------------------------------------
(* Shader sources.  A source is the set of the lines the engine looks for  *)
(* in it: "main" (any code at all), the pass markers BUFFER_<n>, the       *)
(* marker POSTPROCESSING and the names of the built-in uniforms.  The      *)
(* empty std::string is the empty set.                                     *)

\* count_buffers(_source): the number of distinct BUFFER_<n> markers
count_buffers(source) ==
    Cardinality({l \in source : beginsWith(l, "BUFFER_")})

\* check_for_postprocessing(_source)
check_for_postprocessing(source) == "POSTPROCESSING" \in source

\* Uniforms::checkPresenceIn: the name occurs in either source
checkPresenceIn(vert, frag) ==
    [name \in {"u_scene", "u_sceneDepth"} |-> name \in vert \cup frag]

RECURSIVE dedup(_)
dedup(l) ==
    IF l = <<>> THEN <<>>
    ELSE LET front == dedup(SubSeq(l, 1, Len(l) - 1))
             last  == l[Len(l)]
         IN  IF \E j \in 1..Len(front) : front[j] = last THEN front
             ELSE Append(front, last)

\* merge(List, List): both lists, each path once
merge(a, b) == dedup(a \o b)

\* loadFromPath(path, &into, include_folders, &dependencies): false when
\* the file cannot be opened; else the file's lines with those of its
\* #include files, and the included paths
loadFromPath(dk, path) ==
    IF path \in DOMAIN dk /\ dk[path].exists
    THEN [ok |-> TRUE,
          source |-> dk[path].source \cup
                     UNION {dk[dk[path].includes[j]].source :
                                j \in 1..Len(dk[path].includes)},
          dependencies |-> dk[path].includes]
    ELSE [ok |-> FALSE, source |-> {}, dependencies |-> <<>>]

\* Shader::load(frag, vert, verbose)
load(sh, frag, vert) == [sh EXCEPT !.loaded = TRUE, !.frag = frag, !.vert = vert]

NewShader == [loaded |-> FALSE, frag |-> {}, vert |-> {}, defines |-> {}]

\* Fbo::allocate(width, height, type)
allocate(w, type) ==
    [allocated |-> TRUE, type |-> type, width |-> w.width, height |-> w.height]

NewFbo == [allocated |-> FALSE, type |-> "COLOR_TEXTURE", width |-> 0, height |-> 0]

billboard_vert == {"main"}
fxaa_frag == {"main", "u_scene"}
default_vert == {"main"}
default_frag == {"main"}

---------------------------------------------------------------------------
(* Sandbox: the reload engine.                                             *)

\* the shader rebuilt for pass i (from 0): define BUFFER_<i>, then load
passShader(sh, i, sb) ==
    load(shaderAddDefine(sh, "BUFFER_" \o Digits[i + 1], ""),
         sb.m_frag_source, billboard_vert)

\* a slip: the framebuffers are allocated again whether or not the count
\* has changed
mutant_updateBuffersAlwaysAllocates(sb, w) ==
    LET n == sb.m_buffers_total IN
    IF n # Len(sb.buffers)
    THEN [sb EXCEPT
            !.buffers = [i \in 1..n |-> allocate(w, "COLOR_TEXTURE")],
            !.m_buffers_shaders =
                [i \in 1..n |-> passShader(NewShader, i - 1, sb)]]
    ELSE [sb EXCEPT
            !.buffers = [i \in 1..n |-> allocate(w, "COLOR_TEXTURE")],
            !.m_buffers_shaders =
                [i \in 1..Len(@) |-> passShader(@[i], i - 1, sb)]]

\* a slip: the pass shaders of the old topology are kept
mutant_updateBuffersKeepsShaders(sb, w) ==
    LET n == sb.m_buffers_total IN
    IF n # Len(sb.buffers)
    THEN [sb EXCEPT
            !.buffers = [i \in 1..n |-> allocate(w, "COLOR_TEXTURE")],
            !.m_buffers_shaders =
                @ \o [i \in 1..n |-> passShader(NewShader, i - 1, sb)]]
    ELSE [sb EXCEPT !.m_buffers_shaders =
            [i \in 1..Len(@) |-> passShader(@[i], i - 1, sb)]]

\* a slip: the buffer array is not cleared before it is filled again
mutant_updateBuffersKeepsBuffers(sb, w) ==
    LET n == sb.m_buffers_total IN
    IF n # Len(sb.buffers)
    THEN [sb EXCEPT
            !.buffers = @ \o [i \in 1..n |-> allocate(w, "COLOR_TEXTURE")],
            !.m_buffers_shaders =
                [i \in 1..n |-> passShader(NewShader, i - 1, sb)]]
    ELSE [sb EXCEPT !.m_buffers_shaders =
            [i \in 1..Len(@) |-> passShader(@[i], i - 1, sb)]]

\* Sandbox::_updateBuffers
_updateBuffers(sb, w) ==
    LET n == sb.m_buffers_total IN
    IF n # Len(sb.buffers)
    THEN [sb EXCEPT
            !.buffers = [i \in 1..n |-> allocate(w, "COLOR_TEXTURE")],
            !.m_buffers_shaders =
                [i \in 1..n |-> passShader(NewShader, i - 1, sb)]]
    ELSE [sb EXCEPT !.m_buffers_shaders =
            [i \in 1..Len(@) |-> passShader(@[i], i - 1, sb)]]

\* the type of scene framebuffer the current source asks for
sceneFboType(sb) ==
    IF sb.present["u_sceneDepth"] THEN "COLOR_DEPTH_TEXTURES"
    ELSE "COLOR_TEXTURE_DEPTH_BUFFER"

\* a slip: the old dependency entries are not erased
mutantReplaceDependenciesKeepsOld(fs, new_dependencies, dk) ==
    fs \o [j \in 1..Len(new_dependencies) |->
             [type |-> "GLSL_DEPENDENCY", path |-> new_dependencies[j],
              lastChange |-> dk[new_dependencies[j]].mtime]]

\* the dependency entries of the registry replaced by new_dependencies
replaceDependencies(fs, new_dependencies, dk) ==
    SelectSeq(fs, LAMBDA f : f.type # "GLSL_DEPENDENCY")
    \o [j \in 1..Len(new_dependencies) |->
           [type |-> "GLSL_DEPENDENCY", path |-> new_dependencies[j],
            lastChange |-> dk[new_dependencies[j]].mtime]]

\* a slip: post-processing, once on, is never switched off
mutantReloadShadersKeepsPostProcessing(sb0, fs, dk, w) ==
    LET sb1 == flagChange(sb0)
        sb2 == IF sb1.geom_index = -1
               THEN [sb1 EXCEPT !.m_canvas_shader =
                        load(@, sb1.m_frag_source, sb1.m_vert_source)]
               ELSE [sb1 EXCEPT !.m_scene_shader =
                        load(@, sb1.m_frag_source, sb1.m_vert_source)]
        fs1 == replaceDependencies(fs,
                   merge(sb2.m_frag_dependencies, sb2.m_vert_dependencies), dk)
        sb3 == [sb2 EXCEPT
                  !.present = checkPresenceIn(sb2.m_vert_source, sb2.m_frag_source),
                  !.uniforms_data = [n \in DOMAIN @ |-> [@[n] EXCEPT !.bChange = TRUE]],
                  !.m_buffers_total = count_buffers(sb2.m_frag_source)]
        sb4 == _updateBuffers(sb3, w)
        sb5 == IF check_for_postprocessing(sb4.m_frag_source)
               THEN [sb4 EXCEPT
                       !.m_postprocessing_shader =
                           load(shaderAddDefine(@, "POSTPROCESSING", ""),
                                sb4.m_frag_source, billboard_vert),
                       !.m_postprocessing = TRUE]
               ELSE IF sb4.fxaa
               THEN [sb4 EXCEPT
                       !.m_postprocessing_shader = load(@, fxaa_frag, billboard_vert),
                       !.present["u_scene"] = TRUE,
                       !.m_postprocessing = TRUE]
               ELSE sb4
        sb6 == IF (sb5.m_postprocessing \/ sb5.m_histogram)
                  /\ (~sb5.m_scene_fbo.allocated
                      \/ sb5.m_scene_fbo.type # sceneFboType(sb5))
               THEN [sb5 EXCEPT !.m_scene_fbo = allocate(w, sceneFboType(sb5))]
               ELSE sb5
    IN  [sb |-> sb6, files |-> fs1]

\* a slip: the scene framebuffer is allocated only when there is none, and
\* keeps its layout when the source asks for the other one
mutantReloadShadersKeepsLayout(sb0, fs, dk, w) ==
    LET sb1 == flagChange(sb0)
        sb2 == IF sb1.geom_index = -1
               THEN [sb1 EXCEPT !.m_canvas_shader =
                        load(@, sb1.m_frag_source, sb1.m_vert_source)]
               ELSE [sb1 EXCEPT !.m_scene_shader =
                        load(@, sb1.m_frag_source, sb1.m_vert_source)]
        fs1 == replaceDependencies(fs,
                   merge(sb2.m_frag_dependencies, sb2.m_vert_dependencies), dk)
        sb3 == [sb2 EXCEPT
                  !.present = checkPresenceIn(sb2.m_vert_source, sb2.m_frag_source),
                  !.uniforms_data = [n \in DOMAIN @ |-> [@[n] EXCEPT !.bChange = TRUE]],
                  !.m_buffers_total = count_buffers(sb2.m_frag_source)]
        sb4 == _updateBuffers(sb3, w)
        sb5 == IF check_for_postprocessing(sb4.m_frag_source)
               THEN [sb4 EXCEPT
                       !.m_postprocessing_shader =
                           load(shaderAddDefine(@, "POSTPROCESSING", ""),
                                sb4.m_frag_source, billboard_vert),
                       !.m_postprocessing = TRUE]
               ELSE IF sb4.fxaa
               THEN [sb4 EXCEPT
                       !.m_postprocessing_shader = load(@, fxaa_frag, billboard_vert),
                       !.present["u_scene"] = TRUE,
                       !.m_postprocessing = TRUE]
               ELSE [sb4 EXCEPT !.m_postprocessing = FALSE]
        sb6 == IF (sb5.m_postprocessing \/ sb5.m_histogram)
                  /\ ~sb5.m_scene_fbo.allocated
               THEN [sb5 EXCEPT !.m_scene_fbo = allocate(w, sceneFboType(sb5))]
               ELSE sb5
    IN  [sb |-> sb6, files |-> fs1]

\* Sandbox::reloadShaders(_files): the sandbox and the registry after it
reloadShaders(sb0, fs, dk, w) ==
    LET sb1 == flagChange(sb0)
        sb2 == IF sb1.geom_index = -1
               THEN [sb1 EXCEPT !.m_canvas_shader =
                        load(@, sb1.m_frag_source, sb1.m_vert_source)]
               ELSE [sb1 EXCEPT !.m_scene_shader =
                        load(@, sb1.m_frag_source, sb1.m_vert_source)]
        fs1 == replaceDependencies(fs,
                   merge(sb2.m_frag_dependencies, sb2.m_vert_dependencies), dk)
        sb3 == [sb2 EXCEPT
                  !.present = checkPresenceIn(sb2.m_vert_source, sb2.m_frag_source),
                  !.uniforms_data = [n \in DOMAIN @ |-> [@[n] EXCEPT !.bChange = TRUE]],
                  !.m_buffers_total = count_buffers(sb2.m_frag_source)]
        sb4 == _updateBuffers(sb3, w)
        sb5 == IF check_for_postprocessing(sb4.m_frag_source)
               THEN [sb4 EXCEPT
                       !.m_postprocessing_shader =
                           load(shaderAddDefine(@, "POSTPROCESSING", ""),
                                sb4.m_frag_source, billboard_vert),
                       !.m_postprocessing = TRUE]
               ELSE IF sb4.fxaa
               THEN [sb4 EXCEPT
                       !.m_postprocessing_shader = load(@, fxaa_frag, billboard_vert),
                       !.present["u_scene"] = TRUE,
                       !.m_postprocessing = TRUE]
               ELSE [sb4 EXCEPT !.m_postprocessing = FALSE]
        sb6 == IF (sb5.m_postprocessing \/ sb5.m_histogram)
                  /\ (~sb5.m_scene_fbo.allocated
                      \/ sb5.m_scene_fbo.type # sceneFboType(sb5))
               THEN [sb5 EXCEPT !.m_scene_fbo = allocate(w, sceneFboType(sb5))]
               ELSE sb5
    IN  [sb |-> sb6, files |-> fs1]

\* Sandbox::setup(_files, _commands), from "LOAD SHADER" on
setup(sb0, fs, dk, w) ==
    LET v   == loadFromPath(dk, fs[sb0.vert_index + 1].path)
        sb1 == IF sb0.vert_index # -1
               THEN [sb0 EXCEPT !.m_vert_source = v.source,
                                !.m_vert_dependencies = v.dependencies]
               ELSE [sb0 EXCEPT !.m_vert_source = default_vert]
        f   == loadFromPath(dk, fs[sb1.frag_index + 1].path)
        sb2 == IF sb1.frag_index # -1
               THEN [sb1 EXCEPT !.m_frag_source = f.source,
                                !.m_frag_dependencies = f.dependencies]
               ELSE [sb1 EXCEPT !.m_frag_source = default_frag]
        sb3 == IF sb2.geom_index = -1
               THEN [sb2 EXCEPT !.m_canvas_shader =
                        shaderAddDefine(@, "MODEL_VERTEX_TEXCOORD", "")]
               ELSE sb2
        r   == reloadShaders(sb3, fs, dk, w)
        sb4 == _updateBuffers([r.sb EXCEPT !.buffers = <<>>], w)
    IN  IF sb1.frag_index # -1 /\ ~f.ok
        THEN [sb |-> sb2, files |-> fs]
        ELSE [sb |-> flagChange(sb4), files |-> r.files]

\* onFileChange's first lines: a change of a dependency is a change of the
\* shader that includes it
reroute(sb, fs, index) ==
    LET type     == fs[index + 1].type
        filename == fs[index + 1].path
        inFrag   == \E j \in 1..Len(sb.m_frag_dependencies) :
                        sb.m_frag_dependencies[j] = filename
        inVert   == \E j \in 1..Len(sb.m_vert_dependencies) :
                        sb.m_vert_dependencies[j] = filename
    IN  IF type = "GLSL_DEPENDENCY" /\ inFrag
        THEN [type |-> "FRAG_SHADER", filename |-> fs[sb.frag_index + 1].path]
        ELSE IF type = "GLSL_DEPENDENCY" /\ inVert
        THEN [type |-> "VERT_SHADER", filename |-> fs[sb.vert_index + 1].path]
        ELSE [type |-> type, filename |-> filename]

\* a slip: the reload runs whether or not the file could be read
mutantOnFileChangeAlwaysReloads(sb, fs, dk, w, index) ==
    LET to  == reroute(sb, fs, index)
        l   == loadFromPath(dk, to.filename)
        sbF == [sb EXCEPT !.m_frag_source = l.source,
                          !.m_frag_dependencies = l.dependencies]
        sbV == [sb EXCEPT !.m_vert_source = l.source,
                          !.m_vert_dependencies = l.dependencies]
        rF  == reloadShaders(sbF, fs, dk, w)
        rV  == reloadShaders(sbV, fs, dk, w)
    IN  IF to.type = "FRAG_SHADER"
        THEN [sb |-> flagChange(rF.sb), files |-> rF.files]
        ELSE IF to.type = "VERT_SHADER"
        THEN [sb |-> flagChange(rV.sb), files |-> rV.files]
        ELSE [sb |-> flagChange(sb), files |-> fs]

\* a slip: a reload given up for an unreadable file leaves no mark
mutantOnFileChangeAbortUnmarked(sb, fs, dk, w, index) ==
    LET to  == reroute(sb, fs, index)
        l   == loadFromPath(dk, to.filename)
        sbF == [sb EXCEPT !.m_frag_source = l.source,
                          !.m_frag_dependencies = l.dependencies]
        sbV == [sb EXCEPT !.m_vert_source = l.source,
                          !.m_vert_dependencies = l.dependencies]
        rF  == reloadShaders(sbF, fs, dk, w)
        rV  == reloadShaders(sbV, fs, dk, w)
    IN  IF to.type = "FRAG_SHADER"
        THEN IF l.ok THEN [sb |-> flagChange(rF.sb), files |-> rF.files]
             ELSE [sb |-> sbF, files |-> fs]
        ELSE IF to.type = "VERT_SHADER"
        THEN IF l.ok THEN [sb |-> flagChange(rV.sb), files |-> rV.files]
             ELSE [sb |-> sbV, files |-> fs]
        ELSE [sb |-> flagChange(sb), files |-> fs]

\* Sandbox::onFileChange(_files, index), index within the registry.  The
\* stage's source and dependency list are emptied before loadFromPath, which
\* leaves them so when it fails.
onFileChange(sb, fs, dk, w, index) ==
    LET to  == reroute(sb, fs, index)
        l   == loadFromPath(dk, to.filename)
        sbF == [sb EXCEPT !.m_frag_source = l.source,
                          !.m_frag_dependencies = l.dependencies]
        sbV == [sb EXCEPT !.m_vert_source = l.source,
                          !.m_vert_dependencies = l.dependencies]
        rF  == reloadShaders(sbF, fs, dk, w)
        rV  == reloadShaders(sbV, fs, dk, w)
    IN  IF to.type = "FRAG_SHADER"
        THEN IF l.ok THEN [sb |-> flagChange(rF.sb), files |-> rF.files]
             ELSE [sb |-> flagChange(sbF), files |-> fs]
        ELSE IF to.type = "VERT_SHADER"
        THEN IF l.ok THEN [sb |-> flagChange(rV.sb), files |-> rV.files]
             ELSE [sb |-> flagChange(sbV), files |-> fs]
        ELSE [sb |-> flagChange(sb), files |-> fs]

\* Sandbox::onViewportResize(_newWidth, _newHeight); w is the new window
onViewportResize(sb, w) ==
    flagChange(
      [sb EXCEPT
         !.buffers = [i \in 1..Len(@) |-> allocate(w, "COLOR_TEXTURE")],
         !.m_scene_fbo = IF sb.m_postprocessing \/ sb.m_histogram
                         THEN allocate(w, sceneFboType(sb)) ELSE @,
         !.m_record_fbo = IF sb.m_record \/ sb.screenshotFile # ""
                          THEN allocate(w, "COLOR_TEXTURE_DEPTH_BUFFER")
                          ELSE @])

\* Uniforms::haveChange: a uniform, a light or the camera changed
uniformsHaveChange(sb) ==
    \/ \E n \in DOMAIN sb.uniforms_data : sb.uniforms_data[n].bChange
    \/ \E j \in 1..Len(sb.lights) : sb.lights[j].bChange
    \/ sb.camera.bChange

\* Sandbox::haveChange
haveChange(sb) ==
    \/ sb.m_change
    \/ sb.m_record
    \/ sb.screenshotFile # ""
    \/ sb.m_scene_change
    \/ uniformsHaveChange(sb)

\* a slip: the uniforms are not told to unflag
mutantUnflagChangeKeepsUniforms(sb) ==
    [sb EXCEPT !.m_change = FALSE,
               !.m_scene_change = FALSE]

\* Sandbox::unflagChange
unflagChange(sb) ==
    [sb EXCEPT !.m_change = FALSE,
               !.m_scene_change = FALSE,
               !.uniforms_data = [n \in DOMAIN @ |-> [@[n] EXCEPT !.bChange = FALSE]],
               !.lights = [j \in 1..Len(@) |-> [@[j] EXCEPT !.bChange = FALSE]],
               !.camera.bChange = FALSE]

\* the dirty flags that are set: the explicit flag, the scene's, and the
\* uniforms' (each uniform, each light, the camera)
DirtyFlags(sb) ==
    (IF sb.m_change THEN {<<"change">>} ELSE {})
    \cup (IF sb.m_scene_change THEN {<<"scene">>} ELSE {})
    \cup {<<"uniform", n>> : n \in {m \in DOMAIN sb.uniforms_data :
                                       sb.uniforms_data[m].bChange}}
    \cup {<<"light", j>> : j \in {k \in 1..Len(sb.lights) :
                                     sb.lights[k].bChange}}
    \cup (IF sb.camera.bChange THEN {<<"camera">>} ELSE {})

\* Sandbox::render and renderUI: the framebuffers they allocate
render(sb, w) ==
    LET shot == sb.screenshotFile # "" \/ sb.m_record
        sb1  == IF shot /\ ~sb.m_record_fbo.allocated
                THEN [sb EXCEPT !.m_record_fbo =
                         allocate(w, "COLOR_TEXTURE_DEPTH_BUFFER")]
                ELSE sb
    IN  IF (sb1.m_postprocessing \/ sb1.m_histogram) /\ ~sb1.m_scene_fbo.allocated
        THEN [sb1 EXCEPT !.m_scene_fbo = allocate(w, sceneFboType(sb1))]
        ELSE sb1

\* Sandbox::renderDone; savedFrames and savedShots are the files written by
\* onScreenshot (the frame number, the screenshot's path)
renderDone(sb, glOpen) ==
    LET head == sb.m_record_head + sb.m_record_fdelta
        sb1  == IF sb.m_record
                THEN [sb EXCEPT
                        !.savedFrames = IF glOpen THEN @ \cup {sb.m_record_counter}
                                        ELSE @,
                        !.m_record_head = head,
                        !.m_record_counter = @ + 1,
                        !.m_record = ~(head >= sb.m_record_end)]
                ELSE IF sb.screenshotFile # ""
                THEN [sb EXCEPT
                        !.savedShots = IF glOpen THEN @ \cup {sb.screenshotFile}
                                       ELSE @,
                        !.screenshotFile = ""]
                ELSE sb
        sb2  == IF sb1.m_histogram /\ glOpen /\ haveChange(sb1)
                THEN [sb1 EXCEPT !.m_histogram_texture = TRUE]
                ELSE sb1
        sb3  == unflagChange(sb2)
    IN  IF ~sb3.m_initialized
        THEN flagChange([sb3 EXCEPT !.m_initialized = TRUE])
        ELSE sb3

---------------------------------------------------------------------------
(* main(): the render thread.  main.pc is its place:                       *)
(*   setup | loop | update | changed | lock | consume | skip | render |    *)
(*   done | finish | exit | join | exited                                  *)
(* main.hasLimit: a time limit was given (-s); main.elapsed: getTime() has *)
(* reached it.  main.frame is history, kept between sandbox.render() and   *)
(* sandbox.renderDone(): the dirty flags that were set when the frame was  *)
(* drawn, and whether the frame was drawn into the record framebuffer.     *)

\* filesMutex.lock(); sandbox.setup(files, commands); filesMutex.unlock();
MainSetup ==
    LET r == setup(sandbox, files, disk, window) IN
    /\ Alive
    /\ main.pc = "setup"
    /\ filesMutex = "free"
    /\ sandbox' = r.sb
    /\ files' = r.files
    /\ main' = [main EXCEPT !.pc = "loop"]
    /\ UNCHANGED <<bRun, window, filesMutex, fileChanged, consoleMutex,
                   outputFile, fullFps, timeOut, execute_exit, disk, watcher,
                   cmds_arguments, cmd, memFault>>

\* a slip: the loop goes on whatever the run flag says
mutantMainLoopIgnoresRun ==
    /\ Alive
    /\ main.pc = "loop"
    /\ main' = [main EXCEPT !.pc = IF window.open THEN "update" ELSE "exit"]
    /\ UNCHANGED <<bRun, window, files, filesMutex, fileChanged, consoleMutex,
                   outputFile, fullFps, timeOut, execute_exit, sandbox, disk,
                   watcher, cmds_arguments, cmd, memFault>>

\* while ( isGL() && bRun.load() )
MainLoop ==
    /\ Alive
    /\ main.pc = "loop"
    /\ main' = [main EXCEPT !.pc = IF window.open /\ bRun THEN "update"
                                   ELSE "exit"]
    /\ UNCHANGED <<bRun, window, files, filesMutex, fileChanged, consoleMutex,
                   outputFile, fullFps, timeOut, execute_exit, sandbox, disk,
                   watcher, cmds_arguments, cmd, memFault>>

\* updateGL(); if ( timeLimit >= 0.0 && getTime() >= timeLimit ) ...
MainUpdate ==
    /\ Alive
    /\ main.pc = "update"
    /\ \E e \in {main.elapsed, main.hasLimit} :
          /\ main' = [main EXCEPT !.pc = "changed", !.elapsed = e]
          /\ timeOut' = (timeOut \/ e)
          /\ sandbox' = IF e THEN [sandbox EXCEPT !.screenshotFile = outputFile]
                        ELSE sandbox
    /\ UNCHANGED <<bRun, window, files, filesMutex, fileChanged, consoleMutex,
                   outputFile, fullFps, execute_exit, disk, watcher,
                   cmds_arguments, cmd, memFault>>

\* onKeyPress(_key), called from updateGL()'s event poll
onKeyPress(key) ==
    /\ Alive
    /\ main.pc = "update"
    /\ bRun' = IF key \in {"q", "Q"} THEN FALSE ELSE bRun
    /\ UNCHANGED <<window, files, filesMutex, fileChanged, consoleMutex,
                   outputFile, fullFps, timeOut, execute_exit, sandbox, disk,
                   main, watcher, cmds_arguments, cmd, memFault>>

\* the window manager closes the window: isGL() is false from then on
CloseWindow ==
    /\ Alive
    /\ window.open
    /\ main.pc \notin {"setup", "exit", "join"}
    /\ window' = [window EXCEPT !.open = FALSE]
    /\ UNCHANGED <<bRun, files, filesMutex, fileChanged, consoleMutex,
                   outputFile, fullFps, timeOut, execute_exit, sandbox, disk,
                   main, watcher, cmds_arguments, cmd, memFault>>

\* the widths the window manager gives the window
Widths == {5, 6}

\* the window is resized: main()'s onViewportResize(_newWidth, _newHeight),
\* called from updateGL()'s event poll
WindowResize ==
    /\ Alive
    /\ main.pc = "update"
    /\ window.open
    /\ \E width \in Widths \ {window.width} :
          /\ window' = [window EXCEPT !.width = width]
          /\ sandbox' = onViewportResize(sandbox, window')
    /\ UNCHANGED <<bRun, files, filesMutex, fileChanged, consoleMutex,
                   outputFile, fullFps, timeOut, execute_exit, disk, main,
                   watcher, cmds_arguments, cmd, memFault>>

\* if ( fileChanged != -1 )
MainChanged ==
    /\ Alive
    /\ main.pc = "changed"
    /\ main' = [main EXCEPT !.pc = IF fileChanged # -1 THEN "lock" ELSE "skip"]
    /\ UNCHANGED <<bRun, window, files, filesMutex, fileChanged, consoleMutex,
                   outputFile, fullFps, timeOut, execute_exit, sandbox, disk,
                   watcher, cmds_arguments, cmd, memFault>>

\* filesMutex.lock();
MainLock ==
    /\ Alive
    /\ main.pc = "lock"
    /\ filesMutex = "free"
    /\ filesMutex' = "main"
    /\ main' = [main EXCEPT !.pc = "consume"]
    /\ UNCHANGED <<bRun, window, files, fileChanged, consoleMutex, outputFile,
                   fullFps, timeOut, execute_exit, sandbox, disk, watcher,
                   cmds_arguments, cmd, memFault>>

\* a slip: after a change the slot is tested again in the same iteration
mutantMainConsumeDrainsSlot ==
    LET r == onFileChange(sandbox, files, disk, window, fileChanged) IN
    /\ Alive
    /\ main.pc = "consume"
    /\ IF fileChanged >= 0 /\ fileChanged < Len(files)
       THEN /\ sandbox' = r.sb
            /\ files' = r.files
            /\ UNCHANGED memFault
       ELSE /\ \E dies \in BOOLEAN : memFault' = dies
            /\ sandbox' = flagChange(sandbox)
            /\ UNCHANGED files
    /\ fileChanged' = -1
    /\ filesMutex' = "free"
    /\ main' = [main EXCEPT !.pc = "changed"]
    /\ UNCHANGED <<bRun, window, consoleMutex, outputFile, fullFps, timeOut,
                   execute_exit, disk, watcher, cmds_arguments, cmd>>

\* sandbox.onFileChange( files, fileChanged ); fileChanged = -1;
\* filesMutex.unlock();  An index outside the registry reads past the
\* vector: the process dies, or the stray entry matches no type and only
\* the change flag is set.
MainConsume ==
    LET r == onFileChange(sandbox, files, disk, window, fileChanged) IN
    /\ Alive
    /\ main.pc = "consume"
    /\ IF fileChanged >= 0 /\ fileChanged < Len(files)
       THEN /\ sandbox' = r.sb
            /\ files' = r.files
            /\ UNCHANGED memFault
       ELSE /\ \E dies \in BOOLEAN : memFault' = dies
            /\ sandbox' = flagChange(sandbox)
            /\ UNCHANGED files
    /\ fileChanged' = -1
    /\ filesMutex' = "free"
    /\ main' = [main EXCEPT !.pc = "skip"]
    /\ UNCHANGED <<bRun, window, consoleMutex, outputFile, fullFps, timeOut,
                   execute_exit, disk, watcher, cmds_arguments, cmd>>

\* Sandbox::reloadShaders as far as its store
\*     m_buffers_total = count_buffers(m_frag_source);
\* inside the onFileChange that MainConsume completes: the new pass count
\* is in place before _updateBuffers clears and refills the arrays, and no
\* lock taken by the command threads covers the two.
MainReloadTotal ==
    LET to == reroute(sandbox, files, fileChanged)
        l  == loadFromPath(disk, to.filename)
        n  == count_buffers(IF to.type = "FRAG_SHADER" THEN l.source
                            ELSE sandbox.m_frag_source)
    IN  /\ Alive
        /\ main.pc = "consume"
        /\ fileChanged >= 0 /\ fileChanged < Len(files)
        /\ to.type \in {"FRAG_SHADER", "VERT_SHADER"}
        /\ l.ok
        /\ n # sandbox.m_buffers_total
        /\ sandbox' = [sandbox EXCEPT !.m_buffers_total = n]
        /\ UNCHANGED <<bRun, window, files, filesMutex, fileChanged,
                       consoleMutex, outputFile, fullFps, timeOut, execute_exit,
                       disk, watcher, cmds_arguments, cmd, main, memFault>>

\* a slip: the full-frame-rate mode is not looked at
mutantMainSkipIgnoresFullFps ==
    /\ Alive
    /\ main.pc = "skip"
    /\ main' = [main EXCEPT !.pc =
                  IF ~timeOut /\ ~haveChange(sandbox)
                  THEN "loop" ELSE "render"]
    /\ UNCHANGED <<bRun, window, files, filesMutex, fileChanged, consoleMutex,
                   outputFile, fullFps, timeOut, execute_exit, sandbox, disk,
                   watcher, cmds_arguments, cmd, memFault>>

\* if (!timeOut && !fullFps && !sandbox.haveChange()) { pal_sleep; continue; }
MainSkip ==
    /\ Alive
    /\ main.pc = "skip"
    /\ main' = [main EXCEPT !.pc =
                  IF ~timeOut /\ ~fullFps /\ ~haveChange(sandbox)
                  THEN "loop" ELSE "render"]
    /\ UNCHANGED <<bRun, window, files, filesMutex, fileChanged, consoleMutex,
                   outputFile, fullFps, timeOut, execute_exit, sandbox, disk,
                   watcher, cmds_arguments, cmd, memFault>>

\* a slip: the frame is drawn with the console mutex taken
mutantMainRenderLocksConsole ==
    /\ Alive
    /\ main.pc = "render"
    /\ consoleMutex = "free"
    /\ sandbox' = render(sandbox, window)
    /\ main' = [main EXCEPT
                  !.pc = "done",
                  !.frame = [marks |-> DirtyFlags(sandbox),
                             recorded |-> sandbox.screenshotFile # ""
                                            \/ sandbox.m_record]]
    /\ UNCHANGED <<bRun, window, files, filesMutex, fileChanged, consoleMutex,
                   outputFile, fullFps, timeOut, execute_exit, disk, watcher,
                   cmds_arguments, cmd, memFault>>

\* sandbox.render(); sandbox.renderUI();
MainRender ==
    /\ Alive
    /\ main.pc = "render"
    /\ sandbox' = render(sandbox, window)
    /\ main' = [main EXCEPT
                  !.pc = "done",
                  !.frame = [marks |-> DirtyFlags(sandbox),
                             recorded |-> sandbox.screenshotFile # ""
                                            \/ sandbox.m_record]]
    /\ UNCHANGED <<bRun, window, files, filesMutex, fileChanged, consoleMutex,
                   outputFile, fullFps, timeOut, execute_exit, disk, watcher,
                   cmds_arguments, cmd, memFault>>

\* sandbox.renderDone();
MainRenderDone ==
    /\ Alive
    /\ main.pc = "done"
    /\ sandbox' = renderDone(sandbox, window.open)
    /\ main' = [main EXCEPT !.pc = "finish",
                            !.frame = [marks |-> {}, recorded |-> FALSE]]
    /\ UNCHANGED <<bRun, window, files, filesMutex, fileChanged, consoleMutex,
                   outputFile, fullFps, timeOut, execute_exit, disk, watcher,
                   cmds_arguments, cmd, memFault>>

\* the flag after: if ( timeOut && sandbox.screenshotFile == "" )
\*                     bRun.store(false); else renderGL();
finish(run, tOut, sb) == IF tOut /\ sb.screenshotFile = "" THEN FALSE ELSE run

MainFinish ==
    /\ Alive
    /\ main.pc = "finish"
    /\ bRun' = finish(bRun, timeOut, sandbox)
    /\ main' = [main EXCEPT !.pc = "loop"]
    /\ UNCHANGED <<window, files, filesMutex, fileChanged, consoleMutex,
                   outputFile, fullFps, timeOut, execute_exit, sandbox, disk,
                   watcher, cmds_arguments, cmd, memFault>>

\* if ( !isGL() ) bRun.store(false); onExit();
MainExit ==
    /\ Alive
    /\ main.pc = "exit"
    /\ bRun' = (bRun /\ window.open)
    /\ main' = [main EXCEPT !.pc = "join"]
    /\ UNCHANGED <<window, files, filesMutex, fileChanged, consoleMutex,
                   outputFile, fullFps, timeOut, execute_exit, sandbox, disk,
                   watcher, cmds_arguments, cmd, memFault>>

\* fileWatcher.join(); pthread_cancel( cinHandler ); exit(0);
MainJoin ==
    /\ Alive
    /\ main.pc = "join"
    /\ watcher.pc = "done"
    /\ main' = [main EXCEPT !.pc = "exited"]
    /\ UNCHANGED <<bRun, window, files, filesMutex, fileChanged, consoleMutex,
                   outputFile, fullFps, timeOut, execute_exit, sandbox, disk,
                   watcher, cmds_arguments, cmd, memFault>>

---------------------------------------------------------------------------
(* fileWatcherThread.  watcher.pc: loop | for | check | stat | publish |   *)
(* done; watcher.i is the for loop's i (from 0), watcher.date the last     *)
(* st.st_mtime read.  watcher.published is a history field the code does   *)
(* not have: the number of stores into fileChanged by the current pass of  *)
(* the for loop.                                                           *)

\* a slip: the sweeps go on whatever the run flag says
mutantWatcherLoopIgnoresRun ==
    /\ Alive
    /\ watcher.pc = "loop"
    /\ watcher' = [watcher EXCEPT !.pc = "for", !.i = 0, !.published = 0]
    /\ UNCHANGED <<bRun, window, files, filesMutex, fileChanged, consoleMutex,
                   outputFile, fullFps, timeOut, execute_exit, sandbox, disk,
                   main, cmds_arguments, cmd, memFault>>

\* while ( bRun.load() )
WatcherLoop ==
    /\ Alive
    /\ watcher.pc = "loop"
    /\ watcher' = [watcher EXCEPT !.pc = IF bRun THEN "for" ELSE "done",
                                  !.i = 0, !.published = 0]
    /\ UNCHANGED <<bRun, window, files, filesMutex, fileChanged, consoleMutex,
                   outputFile, fullFps, timeOut, execute_exit, sandbox, disk,
                   main, cmds_arguments, cmd, memFault>>

\* i < files.size(), else pal_sleep(500000) and the next sweep
WatcherFor ==
    /\ Alive
    /\ watcher.pc = "for"
    /\ watcher' = [watcher EXCEPT !.pc = IF watcher.i < Len(files)
                                         THEN "check" ELSE "loop"]
    /\ UNCHANGED <<bRun, window, files, filesMutex, fileChanged, consoleMutex,
                   outputFile, fullFps, timeOut, execute_exit, sandbox, disk,
                   main, cmds_arguments, cmd, memFault>>

\* a slip: the entry's time is read whatever the slot holds
mutantWatcherCheckIgnoresSlot ==
    /\ Alive
    /\ watcher.pc = "check"
    /\ watcher' = [watcher EXCEPT !.pc = "stat"]
    /\ UNCHANGED <<bRun, window, files, filesMutex, fileChanged, consoleMutex,
                   outputFile, fullFps, timeOut, execute_exit, sandbox, disk,
                   main, cmds_arguments, cmd, memFault>>

\* if ( fileChanged == -1 )
WatcherCheck ==
    /\ Alive
    /\ watcher.pc = "check"
    /\ watcher' = IF fileChanged = -1 THEN [watcher EXCEPT !.pc = "stat"]
                  ELSE [watcher EXCEPT !.pc = "for", !.i = @ + 1]
    /\ UNCHANGED <<bRun, window, files, filesMutex, fileChanged, consoleMutex,
                   outputFile, fullFps, timeOut, execute_exit, sandbox, disk,
                   main, cmds_arguments, cmd, memFault>>

\* stat( files[i].path.c_str(), &st ); int date = st.st_mtime;
\* if ( date != files[i].lastChange ).  A failed stat leaves st as it was.
\* With i past the end of the registry the read is of a stray entry: the
\* process dies, or a change is or is not seen.
WatcherStat ==
    LET f    == files[watcher.i + 1]
        date == IF disk[f.path].exists THEN disk[f.path].mtime ELSE watcher.date
    IN  /\ Alive
        /\ watcher.pc = "stat"
        /\ IF watcher.i < Len(files)
           THEN /\ watcher' = IF date # f.lastChange
                              THEN [watcher EXCEPT !.pc = "publish", !.date = date]
                              ELSE [watcher EXCEPT !.pc = "for", !.i = @ + 1,
                                                   !.date = date]
                /\ UNCHANGED memFault
           ELSE \E out \in {"dies", "same", "differs"} :
                    /\ memFault' = (out = "dies")
                    /\ watcher' = IF out = "differs"
                                  THEN [watcher EXCEPT !.pc = "publish"]
                                  ELSE [watcher EXCEPT !.pc = "for", !.i = @ + 1]
        /\ UNCHANGED <<bRun, window, files, filesMutex, fileChanged,
                       consoleMutex, outputFile, fullFps, timeOut,
                       execute_exit, sandbox, disk, main, cmds_arguments, cmd>>

\* a slip: the watcher reloads the changed file itself
mutantWatcherPublishReloads ==
    LET r == onFileChange(sandbox, files, disk, window, watcher.i) IN
    /\ Alive
    /\ watcher.pc = "publish"
    /\ filesMutex = "free"
    /\ watcher.i < Len(files)
    /\ sandbox' = r.sb
    /\ files' = [r.files EXCEPT ![watcher.i + 1].lastChange = watcher.date]
    /\ watcher' = [watcher EXCEPT !.pc = "for", !.i = @ + 1,
                                  !.published = @ + 1]
    /\ UNCHANGED <<bRun, window, filesMutex, fileChanged, consoleMutex,
                   outputFile, fullFps, timeOut, execute_exit, disk, main,
                   cmds_arguments, cmd, memFault>>

\* filesMutex.lock(); files[i].lastChange = date; fileChanged = i;
\* filesMutex.unlock();  With i past the end the write lands outside the
\* registry: the process dies, or the registry is as it was.
WatcherPublish ==
    /\ Alive
    /\ watcher.pc = "publish"
    /\ filesMutex = "free"
    /\ IF watcher.i < Len(files)
       THEN /\ files' = [files EXCEPT ![watcher.i + 1].lastChange = watcher.date]
            /\ UNCHANGED memFault
       ELSE /\ \E dies \in BOOLEAN : memFault' = dies
            /\ UNCHANGED files
    /\ fileChanged' = watcher.i
    /\ watcher' = [watcher EXCEPT !.pc = "for", !.i = @ + 1,
                                  !.published = @ + 1]
    /\ UNCHANGED <<bRun, window, filesMutex, consoleMutex, outputFile, fullFps,
                   timeOut, execute_exit, sandbox, disk, main, cmds_arguments,
                   cmd>>

---------------------------------------------------------------------------
(* The file system and the files named on the command line.                *)

FragPath == "s.frag"
VertPath == "s.vert"
DepA == "a.glsl"
DepB == "b.glsl"

File(src, inc) == [exists |-> TRUE, mtime |-> 0, source |-> src, includes |-> inc]

Watch(type, path) == [type |-> type, path |-> path, lastChange |-> 0]

\* the texts an edit may leave in s.frag, each with its #include lines
FragVersions ==
    { [source |-> {"main", "BUFFER_0", "BUFFER_1"}, includes |-> <<DepA>>],
      [source |-> {"main", "BUFFER_0", "BUFFER_1", "BUFFER_2"}, includes |-> <<>>],
      [source |-> {"main", "POSTPROCESSING"}, includes |-> <<DepA>>],
      [source |-> {"main", "BUFFER_0", "POSTPROCESSING", "u_sceneDepth"},
       includes |-> <<>>] }

\* the registry as main() leaves it for "glslViewer s.frag s.vert"
StartFiles == << Watch("FRAG_SHADER", FragPath), Watch("VERT_SHADER", VertPath) >>

StartDisk(fragSrc, fragInc, vertInc) ==
    [p \in {FragPath, VertPath, DepA, DepB} |->
        CASE p = FragPath -> File(fragSrc, fragInc)
          [] p = VertPath -> File({"main"}, vertInc)
          [] OTHER -> File({}, <<>>)]

\* the state the Sandbox constructor and the argument loop leave
NewSandbox ==
    [frag_index |-> 0, vert_index |-> 1, geom_index |-> -1,
     cursor |-> TRUE, fxaa |-> FALSE, screenshotFile |-> "",
     m_frag_source |-> {}, m_vert_source |-> {},
     m_frag_dependencies |-> <<>>, m_vert_dependencies |-> <<>>,
     m_buffers_total |-> 0, buffers |-> <<>>, m_buffers_shaders |-> <<>>,
     m_postprocessing |-> FALSE,
     m_canvas_shader |-> NewShader, m_scene_shader |-> NewShader,
     m_scene_defines |-> {}, m_postprocessing_shader |-> NewShader,
     m_scene_fbo |-> NewFbo, m_record_fbo |-> NewFbo,
     m_record_fdelta |-> 100, m_record_start |-> 0, m_record_head |-> 0,
     m_record_end |-> 0, m_record_counter |-> 0, m_record |-> FALSE,
     m_histogram |-> FALSE, m_histogram_texture |-> FALSE,
     m_change |-> TRUE, m_scene_change |-> FALSE, m_initialized |-> FALSE,
     m_showTextures |-> FALSE, m_showPasses |-> FALSE,
     showGrid |-> FALSE, showAxis |-> FALSE, showBBoxes |-> FALSE,
     present |-> [name \in {"u_scene", "u_sceneDepth"} |-> FALSE],
     uniforms_data |-> [n \in {} |-> 0],
     lights |-> <<>>,
     camera |-> [distance |-> 0, fov |-> 0, position |-> <<0, 0, 0>>,
                 exposure |-> <<0, 0, 0>>, bChange |-> FALSE],
     savedFrames |-> {}, savedShots |-> {}]

NewWindow == [open |-> TRUE, width |-> 5, height |-> 5]

\* the variables as main() leaves them when it starts the threads, but for
\* the sandbox and the registry; at is the place of the render thread
Start(dk, out, limit, args, exit, at) ==
    /\ bRun = TRUE
    /\ window = NewWindow
    /\ filesMutex = "free"
    /\ fileChanged = -1
    /\ consoleMutex = "free"
    /\ outputFile = out
    /\ fullFps = FALSE
    /\ timeOut = FALSE
    /\ execute_exit = exit
    /\ cmds_arguments = args
    /\ disk = dk
    /\ watcher = [pc |-> "loop", i |-> 0, date |-> 0, published |-> 0]
    /\ cmd = [t \in Threads |->
                 [NoLine EXCEPT !.pc = IF t = "console" THEN "wait" ELSE "idle"]]
    /\ main = [pc |-> at, hasLimit |-> limit, elapsed |-> FALSE,
              frame |-> [marks |-> {}, recorded |-> FALSE]]
    /\ memFault = FALSE

\* the sandbox once setup has run and the first frame is drawn
Ready(sb, fs, dk, w) ==
    LET r == setup(sb, fs, dk, w)
    IN  [sb |-> renderDone(render(r.sb, w), TRUE), files |-> r.files]


---------------------------------------------------------------------------
(* What happens to the watched files while the program runs.  Every event  *)
(* moves the file's modification time on; MaxTouch bounds their number.    *)

RECURSIVE sumMtime(_, _)
sumMtime(dk, ps) ==
    IF ps = {} THEN 0
    ELSE LET p == CHOOSE q \in ps : TRUE
         IN  dk[p].mtime + sumMtime(dk, ps \ {p})

Events == sumMtime(disk, DOMAIN disk)

EnvUnchanged ==
    UNCHANGED <<bRun, window, files, filesMutex, fileChanged, consoleMutex,
                outputFile, fullFps, timeOut, execute_exit, sandbox, main,
                watcher, cmds_arguments, cmd, memFault>>

\* the file is saved again with the same text
Touch(p) ==
    /\ Alive
    /\ Events < MaxTouch
    /\ disk[p].exists
    /\ disk' = [disk EXCEPT ![p].mtime = @ + 1]
    /\ EnvUnchanged

\* the file is saved with another text and other #include lines
Edit(p, src, inc) ==
    /\ Alive
    /\ Events < MaxTouch
    /\ <<src, inc>> # <<disk[p].source, disk[p].includes>> \/ ~disk[p].exists
    /\ disk' = [disk EXCEPT ![p] = [exists |-> TRUE, mtime |-> @.mtime + 1,
                                    source |-> src, includes |-> inc]]
    /\ EnvUnchanged

\* the file is deleted or made unreadable
Remove(p) ==
    /\ Alive
    /\ Events < MaxTouch
    /\ disk[p].exists
    /\ disk' = [disk EXCEPT ![p].exists = FALSE, ![p].mtime = @ + 1]
    /\ EnvUnchanged


---------------------------------------------------------------------------
(* SpecDispatch: runCmd on its own.  The first frame is drawn, the render  *)
(* loop is left out, and the console thread runs the -e commands and then  *)
(* the lines it reads.                                                     *)

DispatchLines ==
    { "q", "quit", "exit", "help", "fps", "quality,3", "u_a,1",
      "u_color,1,0.5,0", "camera_distance_max,2", "uniforms_speed,1",
      "debug_level,on", "reload", "reload,s.frag", "reload,none",
      "define,A,1", "undefine,A", "screenshot", "screenshot,a.png",
      "fullFps,on", "update", "wait,1", "light_position,1,2,3",
      "camera_fov,4", "frag,2", "xyz" }

DispatchDisk == StartDisk({"main", "BUFFER_0", "BUFFER_1"}, <<DepA>>, <<>>)

InitDispatch ==
    /\ \E out \in {"", "o.png"}, exit \in BOOLEAN,
          args \in {<<>>, <<"fps", "u_a,2">>} :
             Start(DispatchDisk, out, FALSE, args, exit, "loop")
    /\ sandbox = Ready(NewSandbox, StartFiles, DispatchDisk, NewWindow).sb
    /\ files = Ready(NewSandbox, StartFiles, DispatchDisk, NewWindow).files

NextDispatch ==
    \/ ConsoleStart
    \/ CmdReceive("console", DispatchLines)
    \/ CmdScan("console")
    \/ CmdExec("console")
    \/ ReloadAllFor("console")
    \/ ReloadAllSet("console")
    \/ ReloadOneFor("console")
    \/ ReloadOneSet("console")
    \/ CmdFallback("console")
    \/ CmdReturn("console")

SpecDispatch == InitDispatch /\ [][NextDispatch]_vars

\* the commands whose token begins the line
Matching(line) ==
    {j \in 1..Len(commands) : beginsWith(line, commands[j].begins_with)}

\* the tokens of the handlers called for the thread's line, in order
Tried(t) ==
    [k \in 1..Len(cmd[t].invoked) |-> commands[cmd[t].invoked[k].i].begins_with]

\* the calls that returned true
Handled(t) ==
    {k \in 1..Len(cmd[t].invoked) : cmd[t].invoked[k].ret = "handled"}

(* C7: when runCmd returns, the handlers it called are, in registration    *)
(* order, exactly the commands whose token begins the line, up to and      *)
(* including the first whose handler returned true; no handler was called  *)
(* after that one; parseLine was called iff no called handler returned     *)
(* true; and for the line "quit" the handlers of "q" and of "quit" were    *)
(* both called, in that order.                                             *)
C7_DispatchInRegistrationOrder ==
    \A t \in Threads :
        cmd[t].pc = "return" =>
            LET inv  == cmd[t].invoked
                last == IF Handled(t) = {} THEN Len(commands)
                        ELSE inv[Len(inv)].i
            IN  /\ \A k \in 1..(Len(inv) - 1) : inv[k].i < inv[k + 1].i
                /\ {inv[k].i : k \in 1..Len(inv)}
                      = {j \in Matching(cmd[t].line) : j <= last}
                /\ \A k \in 1..Len(inv) : inv[k].ret \in {"handled", "passed"}
                /\ \A k \in Handled(t) : k = Len(inv)
                /\ cmd[t].parsed <=> Handled(t) = {}
                /\ cmd[t].line = "quit" => Tried(t) = <<"q", "quit">>

\* runCmd has returned from "quit": "q" was tried and passed, "quit" handled
\* it, and the line never reached parseLine
C7_QuitTriedAfterQ ==
    /\ cmd["console"].pc = "return"
    /\ cmd["console"].line = "quit"
    /\ Tried("console") = <<"q", "quit">>
    /\ cmd["console"].invoked[1].ret = "passed"
    /\ cmd["console"].invoked[2].ret = "handled"
    /\ ~cmd["console"].parsed
    /\ timeOut

\* the name a command is registered under: its token less a closing comma
CommandNames ==
    {LET tok == commands[j].begins_with
     IN  IF SubSeq(tok, Len(tok), Len(tok)) = "," THEN SubSeq(tok, 1, Len(tok) - 1)
         ELSE tok : j \in 1..Len(commands)}

\* the line assigns a uniform: name,v1[,v2[,v3[,v4]]]
IsAssignment(line) == Len(split(line, ",")) \in 2..5

(* C8, as the specification states it: a uniform assignment whose name is  *)
(* not a registered command always reaches parseLine, and no command whose *)
(* token is a prefix of the name consumes it.                              *)
C8_AssignmentReachesParseLine ==
    \A t \in Threads :
        (/\ cmd[t].pc = "return"
         /\ IsAssignment(cmd[t].line)
         /\ split(cmd[t].line, ",")[1] \notin CommandNames)
            => cmd[t].parsed /\ Handled(t) = {}


---------------------------------------------------------------------------
(* SpecLoop: the render loop with the console and the OSC listener, and no *)
(* file changing (the watcher thread is left out, so main() stops at its   *)
(* join).                                                                  *)

LoopLines == {"q", "quit", "sequence,0,0.1,20", "screenshot,a.png"}

OscLines == {"exit", "u_b,1"}

LoopDisk == StartDisk({"main"}, <<>>, <<>>)

InitLoop ==
    /\ \E limit \in BOOLEAN :
          Start(LoopDisk, IF limit THEN "o.png" ELSE "", limit, <<>>, FALSE,
                "setup")
    /\ sandbox = NewSandbox
    /\ files = StartFiles

NextLoop ==
    \/ MainSetup
    \/ MainLoop
    \/ MainUpdate
    \/ \E key \in {"q", "a"} : onKeyPress(key)
    \/ CloseWindow
    \/ MainChanged
    \/ MainSkip
    \/ MainRender
    \/ MainRenderDone
    \/ MainFinish
    \/ MainExit
    \/ ConsoleStart
    \/ CmdReceive("console", LoopLines)
    \/ CmdReceive("osc", OscLines)
    \/ \E t \in Threads : CmdScan(t)
    \/ \E t \in Threads : CmdExec(t)
    \/ \E t \in Threads : SeqPoll(t)
    \/ \E t \in Threads : CmdFallback(t)
    \/ \E t \in Threads : CmdReturn(t)

SpecLoop == InitLoop /\ [][NextLoop]_vars

\* the step is the end of a loop iteration: the test after renderDone
IsMainFinish == main.pc = "finish" /\ main'.pc = "loop"

(* C9, as the specification states it: after "quit" or "exit" (the finish  *)
(* flag is set and no time limit has run out) the run flag stays true      *)
(* until the engine has finished a pending screenshot and an active        *)
(* recording; the loop clears the flag only then.                          *)
C9_FinishesWorkBeforeStopping ==
    [][(IsMainFinish /\ timeOut /\ ~main.elapsed /\ bRun /\ ~bRun')
          => (sandbox.screenshotFile = "" /\ ~sandbox.m_record)]_vars

\* the step is the return of the "q" handler for the line "q"
IsQuitNow(t) ==
    /\ cmd[t].pc = "exec"
    /\ cmd[t].line = "q"
    /\ cmd'[t].pc = "return"

(* C10: the "q" handler stores false in the run flag; a loop test made     *)
(* with the flag false leaves the loop, so no frame is rendered after it;  *)
(* once out of the loop main() never renders again; and the flag, once     *)
(* false, is never true again.                                             *)
C10_QuitIsImmediateAndFinal ==
    [][/\ \A t \in Threads : IsQuitNow(t) => ~bRun'
       /\ (main.pc = "loop" /\ ~bRun) => main'.pc \in {"loop", "exit"}
       /\ main.pc \in {"exit", "join"} =>
             /\ main'.pc \in {"exit", "join"}
             /\ sandbox'.savedFrames = sandbox.savedFrames
             /\ sandbox'.savedShots = sandbox.savedShots
       /\ ~bRun => ~bRun']_vars

\* "q" was typed while the loop was about to draw with the window open and
\* no finish requested, and the loop has left at its next test
C10_QuitLeftTheLoop ==
    /\ cmd["console"].line = "q"
    /\ cmd["console"].pc = "return"
    /\ ~bRun
    /\ ~timeOut
    /\ window.open
    /\ main.pc = "exit"
    /\ sandbox.m_initialized


(* C19, as the specification states it: once the time limit has run out no *)
(* frame is skipped, and with an output path configured the loop clears    *)
(* the run flag only after a frame has saved the screenshot to that path   *)
(* (the window being open, so that frames can be saved).                   *)
C19_TimeoutSavesOutputFirst ==
    [][/\ (main.pc = "skip" /\ main.elapsed) => main'.pc # "loop"
       /\ (IsMainFinish /\ main.elapsed /\ outputFile # "" /\ window.open
              /\ bRun /\ ~bRun')
            => outputFile \in sandbox.savedShots]_vars


---------------------------------------------------------------------------
(* SpecReload: the reload engine.  The fragment shader is edited, deleted  *)
(* and written again, the vertex shader deleted, and the console asks for  *)
(* the reloads; the watcher thread is left out.                            *)

ReloadLines == {"reload,s.frag", "reload,s.vert"}

ReloadDisk == StartDisk({"main", "BUFFER_0", "BUFFER_1"}, <<DepA>>, <<>>)

InitReload ==
    /\ Start(ReloadDisk, "", FALSE, <<>>, FALSE, "setup")
    /\ sandbox = NewSandbox
    /\ files = StartFiles

NextReload ==
    \/ MainSetup
    \/ MainLoop
    \/ MainUpdate
    \/ MainChanged
    \/ MainLock
    \/ MainConsume
    \/ MainSkip
    \/ MainRender
    \/ MainRenderDone
    \/ MainFinish
    \/ ConsoleStart
    \/ CmdReceive("console", ReloadLines)
    \/ CmdScan("console")
    \/ CmdExec("console")
    \/ ReloadOneFor("console")
    \/ ReloadOneSet("console")
    \/ CmdReturn("console")
    \/ \E v \in FragVersions : Edit(FragPath, v.source, v.includes)
    \/ \E p \in {FragPath, VertPath} : Remove(p)

SpecReload == InitReload /\ [][NextReload]_vars

(* C4: once setup has run, and so after every reload, the buffer array and *)
(* the pass shader array both have m_buffers_total elements.               *)
C4_BufferArraysMatchTotal ==
    main.pc # "setup" =>
        /\ Len(sandbox.buffers) = sandbox.m_buffers_total
        /\ Len(sandbox.m_buffers_shaders) = sandbox.m_buffers_total

\* a reload has changed the number of passes to three: the scene
\* framebuffer is left from a source with POSTPROCESSING, which none of the
\* sources has together with three BUFFER markers
C4_ReloadedToThreePasses ==
    /\ main.pc = "skip"
    /\ sandbox.m_scene_fbo.allocated
    /\ ~sandbox.m_postprocessing
    /\ sandbox.m_buffers_total = 3
    /\ Len(sandbox.buffers) = 3
    /\ Len(sandbox.m_buffers_shaders) = 3

\* the step is main()'s call of onFileChange
IsConsume == main.pc = "consume" /\ main'.pc = "skip"

\* the entry to reload is a shader (or a dependency of one) whose file
\* cannot be read
Unreadable ==
    /\ fileChanged \in 0..(Len(files) - 1)
    /\ reroute(sandbox, files, fileChanged).type \in {"FRAG_SHADER", "VERT_SHADER"}
    /\ ~loadFromPath(disk, reroute(sandbox, files, fileChanged).filename).ok

\* what a reload compiles and allocates
Engine ==
    <<sandbox.m_canvas_shader, sandbox.m_scene_shader,
      sandbox.m_postprocessing_shader, sandbox.m_postprocessing,
      sandbox.m_buffers_total, sandbox.buffers, sandbox.m_buffers_shaders,
      sandbox.m_scene_fbo, sandbox.present>>

(* C5: when the shader file cannot be read, onFileChange does not reload:  *)
(* the compiled programs, the pass count, the buffer and pass shader       *)
(* arrays, the scene framebuffer and the registry are as before.           *)
C5_UnreadableFileKeepsEngine ==
    [][(IsConsume /\ Unreadable) => (Engine' = Engine /\ files' = files)]_vars

\* an aborted reload of the fragment shader: the file is gone, the stored
\* source is empty, and the two passes and the program of the last good
\* source are still there
C5_AbortedFragReload ==
    /\ main.pc = "skip"
    /\ ~disk[FragPath].exists
    /\ sandbox.m_frag_source = {}
    /\ sandbox.m_canvas_shader.frag # {}
    /\ sandbox.m_buffers_total = 2
    /\ Len(sandbox.buffers) = 2

(* C6, as the specification states it: an aborted reload leaves the        *)
(* stage's stored source and dependency list as they were.                 *)
C6_AbortedReloadKeepsSource ==
    [][(IsConsume /\ Unreadable) =>
          /\ sandbox'.m_frag_source = sandbox.m_frag_source
          /\ sandbox'.m_frag_dependencies = sandbox.m_frag_dependencies
          /\ sandbox'.m_vert_source = sandbox.m_vert_source
          /\ sandbox'.m_vert_dependencies = sandbox.m_vert_dependencies]_vars


---------------------------------------------------------------------------
(* SpecWatch: the watcher thread, the render loop and the console's        *)
(* "reload,<path>", while the shaders and the included file are saved      *)
(* again.                                                                  *)

WatchLines == {"reload,s.frag"}

WatchDisk == StartDisk({"main", "BUFFER_0", "BUFFER_1"}, <<DepA>>, <<>>)

\* the texts an edit may leave in s.frag and in s.vert
WatchFragVersions ==
    { [source |-> {"main", "BUFFER_0", "BUFFER_1"}, includes |-> <<DepA>>],
      [source |-> {"main", "BUFFER_0", "BUFFER_1", "BUFFER_2"}, includes |-> <<>>] }

WatchVertVersions == { {"main"}, {"main", "u_scene"} }

InitWatch ==
    /\ Start(WatchDisk, "", FALSE, <<>>, FALSE, "setup")
    /\ sandbox = NewSandbox
    /\ files = StartFiles

NextWatch ==
    \/ MainSetup
    \/ MainLoop
    \/ MainUpdate
    \/ MainChanged
    \/ MainLock
    \/ MainConsume
    \/ MainSkip
    \/ MainRender
    \/ MainRenderDone
    \/ MainFinish
    \/ WatcherLoop
    \/ WatcherFor
    \/ WatcherCheck
    \/ WatcherStat
    \/ WatcherPublish
    \/ ConsoleStart
    \/ CmdReceive("console", WatchLines)
    \/ CmdScan("console")
    \/ CmdExec("console")
    \/ ReloadOneFor("console")
    \/ ReloadOneSet("console")
    \/ CmdReturn("console")
    \/ Touch(DepA)
    \/ \E v \in WatchFragVersions : Edit(FragPath, v.source, v.includes)
    \/ \E src \in WatchVertVersions : Edit(VertPath, src, <<>>)

SpecWatch == InitWatch /\ [][NextWatch]_vars

(* C1, as the specification states it: the changed-file slot is -1 or an   *)
(* index within the registry, also after a reload has shrunk the registry. *)
C1_ChangedSlotWithinRegistry ==
    fileChanged = -1 \/ (0 <= fileChanged /\ fileChanged < Len(files))

(* C2, as the specification states it: a pending index stays in the slot   *)
(* until the render thread consumes it; neither the watcher nor "reload"   *)
(* replaces it, and only the render thread's consume writes -1.            *)
C2_PendingIndexKeptUntilConsumed ==
    [][fileChanged # -1 =>
          \/ fileChanged' = fileChanged
          \/ fileChanged' = -1 /\ IsConsume]_vars

\* nothing is on its way for the vertex shader: no index is pending or
\* being published or consumed, and the registry holds the file's time
VertSettled ==
    /\ Alive
    /\ main.pc \notin {"setup", "lock", "consume"}
    /\ fileChanged = -1
    /\ watcher.pc # "publish"
    /\ cmd["console"].pc \in {"wait", "idle", "return"}
    /\ Len(files) >= 2
    /\ files[2].path = VertPath
    /\ files[2].lastChange = disk[VertPath].mtime

(* C3, as the specification states it, for the vertex shader's entry: a    *)
(* change of its modification time is consumed, so once the registry holds *)
(* the file's time and nothing is pending the engine has loaded the file   *)
(* as it is on disk.                                                       *)
C3_PublishedChangeIsLoaded ==
    VertSettled => sandbox.m_vert_source = loadFromPath(disk, VertPath).source


\* the step is the store of the "reload,<path>" handler
IsReloadOneSet(t) == cmd[t].pc = "reload_one_set" /\ cmd'[t].pc = "return"

\* the index (from 0) of the registry's first entry with the path
IndexOf(path) ==
    (CHOOSE k \in 1..Len(files) :
        /\ files[k].path = path
        /\ \A j \in 1..(k - 1) : files[j].path # path) - 1

\* the thread's "reload,<path>" has stored its index and has not yet gone
\* back to reading, and the index is in the slot
ReloadRequested(t) ==
    /\ cmd[t].pc = "return"
    /\ beginsWith(cmd[t].line, "reload,")
    /\ Handled(t) # {}
    /\ fileChanged = IndexOf(split(cmd[t].line, ",")[2])

(* C11, as the specification states it: "reload,<path>" for a registered   *)
(* primary shader stores that entry's index in the slot, and the index     *)
(* stays there until the render thread consumes it with one call of        *)
(* onFileChange for that index, whatever the watcher thread does.          *)
C11_ReloadRequestIsConsumed ==
    [][\A t \in Threads :
          /\ IsReloadOneSet(t) =>
                fileChanged' = IndexOf(split(cmd[t].line, ",")[2])
          /\ (ReloadRequested(t) /\ fileChanged' # fileChanged) =>
                /\ IsConsume
                /\ fileChanged' = -1
                /\ sandbox' = onFileChange(sandbox, files, disk, window,
                                           fileChanged).sb]_vars


---------------------------------------------------------------------------
(* SpecDeps: the #include files.  Both shaders include a.glsl at the       *)
(* start; the shaders are saved with other #include lines, a.glsl is saved *)
(* with another text, s.vert is deleted, and the console asks for the      *)
(* reloads, of the included file too.  The first frame is drawn.           *)

DepsLines == {"reload,s.frag", "reload,s.vert", "reload,a.glsl"}

DepsDisk == StartDisk({"main"}, <<DepA>>, <<DepA>>)

\* the #include lines an edit may leave in s.frag and in s.vert
DepsFragIncludes == { <<>>, <<DepB>>, <<DepB, DepA>> }

DepsVertIncludes == { <<>>, <<DepB>> }

InitDeps ==
    /\ Start(DepsDisk, "", FALSE, <<>>, FALSE, "loop")
    /\ sandbox = Ready(NewSandbox, StartFiles, DepsDisk, NewWindow).sb
    /\ files = Ready(NewSandbox, StartFiles, DepsDisk, NewWindow).files

NextDeps ==
    \/ MainLoop
    \/ MainUpdate
    \/ MainChanged
    \/ MainLock
    \/ MainConsume
    \/ MainSkip
    \/ MainRender
    \/ MainRenderDone
    \/ MainFinish
    \/ ConsoleStart
    \/ CmdReceive("console", DepsLines)
    \/ CmdScan("console")
    \/ CmdExec("console")
    \/ ReloadOneFor("console")
    \/ ReloadOneSet("console")
    \/ CmdReturn("console")
    \/ \E inc \in DepsFragIncludes : Edit(FragPath, {"main"}, inc)
    \/ \E inc \in DepsVertIncludes : Edit(VertPath, {"main"}, inc)
    \/ Edit(DepA, {"u_scene"}, <<>>)
    \/ Remove(VertPath)

SpecDeps == InitDeps /\ [][NextDeps]_vars

\* the step is a call of onFileChange that goes on to reloadShaders
IsReload ==
    /\ IsConsume
    /\ fileChanged \in 0..(Len(files) - 1)
    /\ reroute(sandbox, files, fileChanged).type \in {"FRAG_SHADER", "VERT_SHADER"}
    /\ loadFromPath(disk, reroute(sandbox, files, fileChanged).filename).ok

\* the paths of the registry's dependency entries, in the registry's order
DepPaths(fs) ==
    LET deps == SelectSeq(fs, LAMBDA f : f.type = "GLSL_DEPENDENCY")
    IN  [j \in 1..Len(deps) |-> deps[j].path]

\* the elements of a list
Elements(l) == {l[j] : j \in 1..Len(l)}

(* C12: a reload leaves every entry that is no dependency at its index     *)
(* with its type and path, and the dependency entries after it are one per *)
(* path that the fragment or the vertex shader now includes, none twice    *)
(* and none left from before; so frag_index and vert_index, which are      *)
(* never written again, name the fragment and the vertex shader's entries  *)
(* at all times.                                                           *)
C12_ReloadReplacesDependencies ==
    /\ [][IsReload =>
            /\ \A i \in 1..Len(files) :
                  files[i].type # "GLSL_DEPENDENCY" =>
                      /\ i <= Len(files')
                      /\ files'[i].type = files[i].type
                      /\ files'[i].path = files[i].path
            /\ Len(files') - Len(DepPaths(files'))
                  = Len(files) - Len(DepPaths(files))
            /\ Elements(DepPaths(files'))
                  = Elements(sandbox'.m_frag_dependencies)
                    \cup Elements(sandbox'.m_vert_dependencies)
            /\ Len(DepPaths(files')) = Cardinality(Elements(DepPaths(files')))]_vars
    /\ [](/\ sandbox.frag_index = 0
          /\ sandbox.vert_index = 1
          /\ files[sandbox.frag_index + 1].type = "FRAG_SHADER"
          /\ files[sandbox.frag_index + 1].path = FragPath
          /\ files[sandbox.vert_index + 1].type = "VERT_SHADER"
          /\ files[sandbox.vert_index + 1].path = VertPath)

\* a reload has replaced the one dependency entry (a.glsl) by two: b.glsl,
\* which the fragment shader now includes, before a.glsl, which the vertex
\* shader still includes; the shaders' entries are where they were
C12_DependencyEntriesReplaced ==
    /\ main.pc = "skip"
    /\ Len(files) = 4
    /\ DepPaths(files) = <<DepB, DepA>>
    /\ sandbox.m_frag_dependencies = <<DepB>>
    /\ sandbox.m_vert_dependencies = <<DepA>>
    /\ files[1].path = FragPath
    /\ files[2].path = VertPath

\* the primary shader's path for a stage and what the stage holds of it
StagePath(stage) ==
    IF stage = "frag" THEN files[sandbox.frag_index + 1].path
    ELSE files[sandbox.vert_index + 1].path

StageDependencies(sb, stage) ==
    IF stage = "frag" THEN sb.m_frag_dependencies ELSE sb.m_vert_dependencies

StageSource(sb, stage) ==
    IF stage = "frag" THEN sb.m_frag_source ELSE sb.m_vert_source

(* C20, as the specification states it: when the consumed entry is a       *)
(* dependency, every stage (fragment, vertex) that includes its path holds *)
(* after the call the text that is on disk now, and the program is built   *)
(* from it.                                                                *)
C20_EveryIncludingStageReloaded ==
    [][(/\ IsConsume
        /\ fileChanged \in 0..(Len(files) - 1)
        /\ files[fileChanged + 1].type = "GLSL_DEPENDENCY")
       => \A stage \in {"frag", "vert"} :
             (/\ files[fileChanged + 1].path
                     \in Elements(StageDependencies(sandbox, stage))
              /\ loadFromPath(disk, StagePath(stage)).ok)
             => /\ StageSource(sandbox', stage)
                      = loadFromPath(disk, StagePath(stage)).source
                /\ sandbox'.m_canvas_shader[stage]
                      = loadFromPath(disk, StagePath(stage)).source]_vars


---------------------------------------------------------------------------
(* SpecScene: the pass topology and the scene framebuffer.  The fragment   *)
(* shader starts plain or with a pass, post-processing and depth sampling; *)
(* it is saved with and without the BUFFER and POSTPROCESSING markers and  *)
(* the u_sceneDepth uniform; the console reloads it and switches the       *)
(* histogram; the window is resized.                                       *)

SceneLines == {"reload,s.frag", "histogram,on", "histogram,off"}

PlainFrag == {"main"}

DepthFrag == {"main", "BUFFER_0", "POSTPROCESSING", "u_sceneDepth"}

\* the texts an edit may leave in s.frag
SceneVersions ==
    { PlainFrag, DepthFrag, {"main", "BUFFER_0", "BUFFER_1", "POSTPROCESSING"},
      {"main", "u_sceneDepth"} }

InitScene ==
    /\ \E src \in {PlainFrag, DepthFrag} :
          Start(StartDisk(src, <<>>, <<>>), "", FALSE, <<>>, FALSE, "setup")
    /\ sandbox = NewSandbox
    /\ files = StartFiles

NextScene ==
    \/ MainSetup
    \/ MainLoop
    \/ MainUpdate
    \/ WindowResize
    \/ MainChanged
    \/ MainLock
    \/ MainConsume
    \/ MainSkip
    \/ MainRender
    \/ MainRenderDone
    \/ MainFinish
    \/ ConsoleStart
    \/ CmdReceive("console", SceneLines)
    \/ CmdScan("console")
    \/ CmdExec("console")
    \/ ReloadOneFor("console")
    \/ ReloadOneSet("console")
    \/ CmdFallback("console")
    \/ CmdReturn("console")
    \/ \E src \in SceneVersions : Edit(FragPath, src, <<>>)

SpecScene == InitScene /\ [][NextScene]_vars

\* the pass topology: bufferPassCount, hasPostProcessing,
\* needsSceneDepthTexture, the lengths of the two arrays and the scene
\* framebuffer's allocation and layout
Topology(sb) ==
    [bufferPassCount |-> sb.m_buffers_total,
     hasPostProcessing |-> sb.m_postprocessing,
     needsSceneDepthTexture |-> sb.present["u_sceneDepth"],
     buffers |-> Len(sb.buffers),
     shaders |-> Len(sb.m_buffers_shaders),
     sceneAllocated |-> sb.m_scene_fbo.allocated,
     sceneLayout |-> sb.m_scene_fbo.type]

(* C13: a reload of a shader, run again at once for the same shader with   *)
(* the files as they are, leaves the pass topology of the first run: the   *)
(* pass count, the post-processing flag, the depth-sampling flag, the      *)
(* array lengths and the scene framebuffer's layout.                       *)
C13_ReloadTwiceSameTopology ==
    [][IsReload =>
          LET stage == reroute(sandbox, files, fileChanged).type
              index == IF stage = "FRAG_SHADER" THEN sandbox.frag_index
                       ELSE sandbox.vert_index
              again == onFileChange(sandbox', files', disk', window', index)
          IN  /\ Topology(again.sb) = Topology(sandbox')
              /\ again.files = files']_vars

\* the file was never saved, so the reload that "reload,s.frag" asked for
\* and the render thread has consumed ran on the source that setup loaded
\* and reloaded: one pass, post-processing, depth sampling
C13_ReloadedUnchangedSource ==
    /\ main.pc = "skip"
    /\ Events = 0
    /\ disk[FragPath].source = DepthFrag
    /\ cmd["console"].n = 1
    /\ cmd["console"].pc = "idle"
    /\ cmd["console"].line = "reload,s.frag"
    /\ Handled("console") # {}
    /\ fileChanged = -1
    /\ sandbox.m_frag_source = DepthFrag
    /\ Topology(sandbox) =
          [bufferPassCount |-> 1, hasPostProcessing |-> TRUE,
           needsSceneDepthTexture |-> TRUE, buffers |-> 1, shaders |-> 1,
           sceneAllocated |-> TRUE, sceneLayout |-> "COLOR_DEPTH_TEXTURES"]

\* the step is the call of Sandbox::render
IsRender == main.pc = "render" /\ main'.pc = "done"

\* the source the programs run from samples the scene's depth
SamplesDepth(sb) ==
    "u_sceneDepth" \in sb.m_canvas_shader.frag \cup sb.m_canvas_shader.vert

(* C14: a frame rendered with post-processing on has the scene framebuffer *)
(* allocated, with the two-texture layout when the loaded source samples   *)
(* u_sceneDepth and the colour-texture/depth-buffer layout when it does    *)
(* not.                                                                    *)
C14_PostProcessedFrameHasSceneFbo ==
    [][(IsRender /\ sandbox.m_postprocessing) =>
          /\ sandbox'.m_scene_fbo.allocated
          /\ sandbox'.m_scene_fbo.type =
                IF SamplesDepth(sandbox) THEN "COLOR_DEPTH_TEXTURES"
                ELSE "COLOR_TEXTURE_DEPTH_BUFFER"]_vars

\* the first post-processed frame after the one edit, from the plain
\* source to the one with POSTPROCESSING and u_sceneDepth: no histogram
\* line was read, so there was no scene framebuffer before the reload
C14_FirstPostProcessedFrame ==
    /\ main.pc = "done"
    /\ Events = 1
    /\ disk[FragPath].mtime = 1
    /\ disk[FragPath].source = DepthFrag
    /\ cmd["console"].n = 1
    /\ cmd["console"].line = "reload,s.frag"
    /\ sandbox.m_postprocessing
    /\ ~sandbox.m_histogram
    /\ sandbox.m_scene_fbo.allocated
    /\ sandbox.m_scene_fbo.type = "COLOR_DEPTH_TEXTURES"

(* C15, as the specification states it: after every reload that ran to    *)
(* its end, an allocated scene framebuffer has the two-texture layout      *)
(* exactly when the source just loaded has the u_sceneDepth uniform.       *)
C15_SceneLayoutMatchesDepthSampling ==
    [][IsReload =>
          (sandbox'.m_scene_fbo.allocated =>
              (sandbox'.m_scene_fbo.type = "COLOR_DEPTH_TEXTURES"
                  <=> "u_sceneDepth" \in sandbox'.m_frag_source
                                          \cup sandbox'.m_vert_source))]_vars


---------------------------------------------------------------------------
(* SpecFrame: which frames are drawn.  The render loop with the console    *)
(* lines that set each part of the dirty state, the full-frame-rate mode   *)
(* and the finish flag; no file changes.                                   *)

FrameLines ==
    { "update", "u_b,1", "camera_fov,4", "screenshot,a.png",
      "sequence,0,0.1,20", "fullFps,on", "fullFps,off", "quit" }

FrameDisk == StartDisk({"main"}, <<>>, <<>>)

InitFrame ==
    /\ Start(FrameDisk, "", FALSE, <<>>, FALSE, "setup")
    /\ sandbox = NewSandbox
    /\ files = StartFiles

NextFrame ==
    \/ MainSetup
    \/ MainLoop
    \/ MainUpdate
    \/ MainChanged
    \/ MainSkip
    \/ MainRender
    \/ MainRenderDone
    \/ MainFinish
    \/ MainExit
    \/ ConsoleStart
    \/ CmdReceive("console", FrameLines)
    \/ CmdScan("console")
    \/ CmdExec("console")
    \/ SeqPoll("console")
    \/ CmdFallback("console")
    \/ CmdReturn("console")

SpecFrame == InitFrame /\ [][NextFrame]_vars

\* the step is the call of Sandbox::renderDone
IsRenderDone == main.pc = "done" /\ main'.pc = "finish"

\* the step is the loop's test for skipping the frame
IsSkipTest == main.pc = "skip" /\ main'.pc \in {"loop", "render"}

(* C16: a dirty flag goes from set to clear only in renderDone, the one    *)
(* call of it in an iteration that draws; an iteration that skips the      *)
(* frame clears none.  renderDone clears them all; on the first frame it   *)
(* sets the explicit flag again afterwards.                                *)
C16_DirtyClearedOnlyByRenderDone ==
    [][/\ (DirtyFlags(sandbox) \ DirtyFlags(sandbox') # {}) => IsRenderDone
       /\ IsRenderDone =>
             DirtyFlags(sandbox') =
                 IF sandbox.m_initialized THEN {} ELSE {<<"change">>}
       /\ (IsSkipTest /\ main'.pc = "loop") => sandbox' = sandbox
       /\ IsRender => main'.pc = "done"
       /\ IsRenderDone => main'.pc = "finish"
       /\ (main.pc = "finish" /\ main'.pc # "finish") => main'.pc = "loop"]_vars

\* a frame has been drawn after the console set the uniform u_b and the
\* camera's field of view: renderDone has cleared their flags and the
\* explicit flag
C16_FrameClearedTheFlags ==
    /\ main.pc = "finish"
    /\ sandbox.m_initialized
    /\ "u_b" \in DOMAIN sandbox.uniforms_data
    /\ sandbox.camera.fov # 0
    /\ DirtyFlags(sandbox) = {}

(* C17: at the loop's test the frame is drawn when, and only when, the     *)
(* explicit flag is set, or a recording runs, or a screenshot is pending,  *)
(* or the scene or the uniforms have a change, or the full-frame-rate mode *)
(* is on, or the finish flag is set; else the iteration skips the frame.   *)
C17_FrameDrawnIffSomethingToDraw ==
    [][IsSkipTest =>
         /\ main'.pc = "render" <=>
               \/ sandbox.m_change
               \/ sandbox.m_record
               \/ sandbox.screenshotFile # ""
               \/ sandbox.m_scene_change
               \/ uniformsHaveChange(sandbox)
               \/ fullFps
               \/ timeOut
         /\ main'.pc = "loop" <=> main'.pc # "render"]_vars

\* the frame is about to be drawn for the full-frame-rate mode alone
C17_DrawnForFullFpsAlone ==
    /\ main.pc = "render"
    /\ fullFps
    /\ ~timeOut
    /\ ~haveChange(sandbox)


---------------------------------------------------------------------------
(* SpecStartup: the console thread from its start.  main() runs setup and  *)
(* the render loop; the thread waits, runs the commands given with -e or   *)
(* -E, and then reads lines.                                               *)

StartupLines == {"u_b,1", "fps", "update"}

\* the commands of the -e / -E arguments, in the order given
StartupArguments ==
    { <<>>, <<"fps", "u_a,2">>, <<"sequence,0,0.1,20", "u_a,2", "update">> }

StartupDisk == StartDisk({"main"}, <<>>, <<>>)

InitStartup ==
    /\ \E args \in StartupArguments, exit \in BOOLEAN :
          /\ exit => args # <<>>
          /\ Start(StartupDisk, "", FALSE, args, exit, "setup")
    /\ sandbox = NewSandbox
    /\ files = StartFiles

NextStartup ==
    \/ MainSetup
    \/ MainLoop
    \/ MainUpdate
    \/ MainChanged
    \/ MainSkip
    \/ MainRender
    \/ MainRenderDone
    \/ MainFinish
    \/ MainExit
    \/ ConsoleStart
    \/ CmdReceive("console", StartupLines)
    \/ CmdScan("console")
    \/ CmdExec("console")
    \/ SeqPoll("console")
    \/ CmdFallback("console")
    \/ CmdReturn("console")

SpecStartup == InitStartup /\ [][NextStartup]_vars

\* the console thread's place in cinWatcherThread and runCmd
Console == cmd["console"]

(* C18: the console thread is in runCmd only once the sandbox is           *)
(* initialized; while it runs the start-up commands its line is the        *)
(* command at its place in the list and no line has been read; it takes    *)
(* the commands one by one in the order given, each after the one before   *)
(* has returned; it reads a line only when the list is done and cleared;   *)
(* and the finish flag is set only at the return of the last start-up      *)
(* command, and only with -E.                                              *)
C18_StartupCommandsFirstAndInOrder ==
    /\ [](/\ Console.pc # "wait" => sandbox.m_initialized
          /\ Console.argi > 0 =>
                /\ Console.argi <= Len(cmds_arguments)
                /\ Console.line = cmds_arguments[Console.argi]
                /\ Console.n = 0
          /\ Console.n > 0 => cmds_arguments = <<>>
          /\ (Console.pc = "wait" /\ ~sandbox.m_initialized) =>
                (Console.invoked = <<>> /\ ~Console.parsed))
    /\ [][/\ Console'.argi # Console.argi =>
                /\ Console.pc \in {"wait", "return"}
                /\ \/ Console'.argi = Console.argi + 1
                   \/ (Console.argi = Len(cmds_arguments)
                         /\ Console'.argi = 0)
          /\ Console'.n # Console.n =>
                (Console.argi = 0 /\ Console.pc = "idle"
                   /\ cmds_arguments = <<>>)
          /\ cmds_arguments' # cmds_arguments =>
                (cmds_arguments' = <<>> /\ Console.pc = "return"
                   /\ Console.argi = Len(cmds_arguments))
          /\ (timeOut' /\ ~timeOut) =>
                (execute_exit /\ Console.pc = "return"
                   /\ Console.argi = Len(cmds_arguments)
                   /\ Console'.pc = "idle")]_vars

\* with -E: the three start-up commands have run (the recording is done,
\* u_a is set), the list is cleared, no line has been read, and the finish
\* flag is set
C18_ExitAfterStartupCommands ==
    /\ execute_exit
    /\ timeOut
    /\ cmds_arguments = <<>>
    /\ cmd["console"].pc = "idle"
    /\ cmd["console"].argi = 0
    /\ cmd["console"].n = 0
    /\ cmd["console"].line = "update"
    /\ "u_a" \in DOMAIN sandbox.uniforms_data
    /\ sandbox.m_record_counter > 0
    /\ sandbox.m_initialized


---------------------------------------------------------------------------
(* SpecCommands: the console thread and the OSC listener dispatching at    *)
(* the same time: lines that name no command, and commands that change the *)
(* state the renderer draws from.  The first frame is drawn and the render *)
(* loop is left out.                                                       *)

TypedLines ==
    { "u_a,1", "u_v,1,2", "u_myColor,1,0,0", "u_w,1,2,3,0.5", "u_a,3,4",
      "fps", "xyz", "camera_fov,4", "debug,on", "screenshot,a.png" }

OscMessages == { "u_a,7", "u_myColor,0,1", "histogram,on", "define,A,1" }

InitCommands ==
    /\ \E args \in {<<>>, <<"u_a,2">>} :
          Start(LoopDisk, "", FALSE, args, FALSE, "loop")
    /\ sandbox = Ready(NewSandbox, StartFiles, LoopDisk, NewWindow).sb
    /\ files = Ready(NewSandbox, StartFiles, LoopDisk, NewWindow).files

NextCommands ==
    \/ ConsoleStart
    \/ CmdReceive("console", TypedLines)
    \/ CmdReceive("osc", OscMessages)
    \/ \E t \in Threads : CmdScan(t)
    \/ \E t \in Threads : CmdExec(t)
    \/ \E t \in Threads : CmdFallback(t)
    \/ \E t \in Threads : CmdReturn(t)

SpecCommands == InitCommands /\ [][NextCommands]_vars

\* the text is a decimal number
IsNumber(s) ==
    /\ Len(s) > 0
    /\ \A k \in 1..Len(s) : isDigitChar(SubSeq(s, k, k)) \/ SubSeq(s, k, k) = "."
    /\ \E k \in 1..Len(s) : isDigitChar(SubSeq(s, k, k))

\* the line is name,v1,...,vk with one to four numbers, and no command's
\* token begins it
IsUniformLine(line) ==
    /\ Matching(line) = {}
    /\ Len(split(line, ",")) \in 2..5
    /\ \A j \in 2..Len(split(line, ",")) : IsNumber(split(line, ",")[j])

\* the step is runCmd's call of parseLine
IsParseLine(t) == cmd[t].pc = "fallback" /\ cmd'[t].pc = "return"

(* C21: a line name,v1,...,vk (k in 1..4, numbers) that no command's token *)
(* begins is handed to parseLine and to no handler, and after that call    *)
(* the uniform name exists with arity k, holds the k values in order and   *)
(* is marked changed, whether or not it existed before (u_myColor,1,0,0    *)
(* gives a vec3 with the values 1, 0, 0).                                  *)
C21_UniformLineSetsUniform ==
    /\ [](\A t \in Threads :
            (cmd[t].pc = "return" /\ IsUniformLine(cmd[t].line))
                => (cmd[t].parsed /\ cmd[t].invoked = <<>>))
    /\ [][\A t \in Threads :
            (IsParseLine(t) /\ IsUniformLine(cmd[t].line)) =>
                LET values == split(cmd[t].line, ",")
                    name   == values[1]
                    k      == Len(values) - 1
                IN  /\ name \in DOMAIN sandbox'.uniforms_data
                    /\ sandbox'.uniforms_data[name].size = k
                    /\ sandbox'.uniforms_data[name].value
                          = [j \in 1..k |-> toFloat(values[j + 1])]
                    /\ sandbox'.uniforms_data[name].bChange
                    /\ cmd[t].line = "u_myColor,1,0,0" =>
                          /\ k = 3
                          /\ sandbox'.uniforms_data[name].value = <<10, 0, 0>>]_vars

\* the console's u_myColor,1,0,0 has created the vec3 where there was no
\* such uniform, and the OSC listener has then made it a vec2
C21_Vec3CreatedThenReplaced ==
    /\ cmd["console"].line = "u_myColor,1,0,0"
    /\ cmd["console"].pc = "idle"
    /\ cmd["osc"].line = "u_myColor,0,1"
    /\ cmd["osc"].pc = "return"
    /\ cmd["osc"].parsed
    /\ sandbox.uniforms_data["u_myColor"].size = 2
    /\ sandbox.uniforms_data["u_myColor"].value = <<0, 10>>
    /\ sandbox.uniforms_data["u_myColor"].bChange


\* the state the commands share with each other and with the renderer
SharedRenderState ==
    <<sandbox.m_showPasses, sandbox.m_showTextures, sandbox.m_histogram,
      sandbox.showGrid, sandbox.showAxis, sandbox.showBBoxes,
      sandbox.m_canvas_shader.defines, sandbox.m_scene_defines,
      sandbox.m_postprocessing_shader.defines,
      [i \in 1..Len(sandbox.m_buffers_shaders) |->
          sandbox.m_buffers_shaders[i].defines],
      sandbox.screenshotFile, sandbox.m_record, sandbox.m_record_start,
      sandbox.m_record_head, sandbox.m_record_end, sandbox.lights,
      sandbox.camera, sandbox.uniforms_data>>

(* C22, as the specification states it: the handlers and the uniform       *)
(* fallback change the shared render state only under the console mutex,   *)
(* so no dispatching thread changes that state while the other thread is   *)
(* inside a handler it entered with the mutex locked.                      *)
C22_CommandsExcludeEachOther ==
    [][\A t \in Threads :
          (cmd'[t] # cmd[t] /\ SharedRenderState' # SharedRenderState)
              => consoleMutex \in {"free", t}]_vars


---------------------------------------------------------------------------
(* SpecBlocking: the commands that keep the console thread in their        *)
(* handler ("wait", "sequence", "reload") beside the render loop.  The     *)
(* first frame is drawn.  SpecBlockingRender adds that the render thread   *)
(* is scheduled, whatever the console thread does; SpecBlockingFair that   *)
(* both threads are.                                                       *)

BlockingLines ==
    { "wait,1", "reload", "sequence,0.2,0.1,10", "sequence,0,-1" }

InitBlocking ==
    /\ Start(LoopDisk, "", FALSE, <<>>, FALSE, "loop")
    /\ sandbox = Ready(NewSandbox, StartFiles, LoopDisk, NewWindow).sb
    /\ files = Ready(NewSandbox, StartFiles, LoopDisk, NewWindow).files

\* one step of main()'s while loop
RenderLoop ==
    \/ MainLoop
    \/ MainUpdate
    \/ MainChanged
    \/ MainLock
    \/ MainConsume
    \/ MainSkip
    \/ MainRender
    \/ MainRenderDone
    \/ MainFinish

\* one step of runCmd on the thread
Dispatch(t) ==
    \/ CmdScan(t)
    \/ CmdExec(t)
    \/ ReloadAllFor(t)
    \/ ReloadAllSet(t)
    \/ SeqPoll(t)
    \/ CmdFallback(t)
    \/ CmdReturn(t)

NextBlocking ==
    \/ RenderLoop
    \/ ConsoleStart
    \/ CmdReceive("console", BlockingLines)
    \/ Dispatch("console")

SpecBlocking == InitBlocking /\ [][NextBlocking]_vars

SpecBlockingRender == SpecBlocking /\ WF_vars(RenderLoop)

\* the render loop keeps running and the console thread, once in the
\* polling loop of "sequence", is scheduled for its next round
SpecBlockingFair ==
    SpecBlocking /\ WF_vars(RenderLoop) /\ WF_vars(SeqPoll("console"))

(* C23: no step of the render thread takes or waits for the console mutex  *)
(* (it is enabled whoever holds it and leaves it as it is); the files      *)
(* mutex is never held by another thread from one step to the next, so the *)
(* render thread's lock is never refused; and, the render thread being     *)
(* scheduled, the loop comes back to its test again and again, however     *)
(* long the console thread stays in "wait", "sequence" or "reload".        *)
C23_RenderLoopNeverBlockedByCommand ==
    /\ [](filesMutex \in {"free", "main"})
    /\ [][main' # main => consoleMutex' = consoleMutex]_vars
    /\ []<>(main.pc = "loop")

\* the console thread is in the polling loop of "sequence", and the render
\* loop has meanwhile drawn and saved the frame of the recording
C23_FrameDrawnWhileConsolePolls ==
    /\ cmd["console"].pc = "seq_poll"
    /\ cmd["console"].line = "sequence,0.2,0.1,10"
    /\ sandbox.m_record_counter = 1
    /\ 0 \in sandbox.savedFrames
    /\ main.pc = "loop"


---------------------------------------------------------------------------
(* SpecShutdown: the end of the program, for "glslViewer s.frag s.vert      *)
(* t.png".  The first frame is drawn, the texture t.png has been saved     *)
(* again since it was loaded, and the console may have read the line "q".  *)
(* The render loop and the watcher thread run; the run flag is cleared by  *)
(* "q", by the Q key, by the time limit or after the window is closed, and *)
(* main() then joins the watcher thread.  The threads are scheduled.       *)

\* the registry with the texture's entry, as Uniforms::addTexture adds it
ShutdownFiles == Append(StartFiles, Watch("IMAGE", "t.png"))

\* t.png saved again after it was loaded
ShutdownDisk ==
    [p \in DOMAIN LoopDisk \cup {"t.png"} |->
        IF p = "t.png" THEN [File({}, <<>>) EXCEPT !.mtime = 1]
        ELSE LoopDisk[p]]

InitShutdown ==
    /\ bRun = TRUE
    /\ window = NewWindow
    /\ filesMutex = "free"
    /\ fileChanged = -1
    /\ consoleMutex = "free"
    /\ fullFps = FALSE
    /\ timeOut = FALSE
    /\ execute_exit = FALSE
    /\ cmds_arguments = <<>>
    /\ disk = ShutdownDisk
    /\ watcher = [pc |-> "loop", i |-> 0, date |-> 0, published |-> 0]
    /\ memFault = FALSE
    /\ \E limit \in BOOLEAN :
          /\ outputFile = IF limit THEN "o.png" ELSE ""
          /\ main = [pc |-> "loop", hasLimit |-> limit, elapsed |-> FALSE,
              frame |-> [marks |-> {}, recorded |-> FALSE]]
    /\ \E typed \in BOOLEAN :
          cmd = [t \in Threads |->
                    IF t = "console" /\ typed
                    THEN [Enter(NoLine, "q") EXCEPT !.n = 1] ELSE NoLine]
    /\ sandbox = Ready(NewSandbox, ShutdownFiles, ShutdownDisk, NewWindow).sb
    /\ files = Ready(NewSandbox, ShutdownFiles, ShutdownDisk, NewWindow).files

\* one step of fileWatcherThread
WatcherThread ==
    \/ WatcherLoop
    \/ WatcherFor
    \/ WatcherCheck
    \/ WatcherStat
    \/ WatcherPublish

\* one step of main() from the render loop on
MainThread == RenderLoop \/ MainExit \/ MainJoin

NextShutdown ==
    \/ MainThread
    \/ WatcherThread
    \/ onKeyPress("q")
    \/ CloseWindow
    \/ CmdScan("console")
    \/ CmdExec("console")
    \/ CmdReturn("console")

SpecShutdown ==
    /\ InitShutdown
    /\ [][NextShutdown]_vars
    /\ WF_vars(MainThread)
    /\ WF_vars(WatcherThread)

(* C24: with the run flag cleared the watcher thread's next test of it     *)
(* ends the thread, which stays ended; and, both threads being scheduled,  *)
(* once the flag is cleared the watcher thread ends (it is never left      *)
(* waiting for the files mutex), the join returns and main() exits.        *)
C24_ShutdownTerminates ==
    /\ [][/\ (~bRun /\ watcher.pc = "loop") => watcher'.pc \in {"loop", "done"}
          /\ watcher.pc = "done" => watcher'.pc = "done"
          /\ main'.pc = "exited" => watcher.pc = "done"]_vars
    /\ (~bRun ~> (watcher.pc = "done" \/ memFault))
    /\ (~bRun ~> (main.pc = "exited" \/ memFault))

\* the flag was cleared while the watcher thread was about to publish the
\* change of t.png: it has published it, ended at its next test, and
\* main() has joined it and exited with the change unconsumed
C24_ExitedWithChangePending ==
    /\ main.pc = "exited"
    /\ watcher.pc = "done"
    /\ ~bRun
    /\ fileChanged = 2
    /\ filesMutex = "free"


\* the step is a store of the "reload" handler's loop over the registry
IsReloadAllSet(t) == cmd[t].pc = "reload_all_set" /\ cmd'[t].pc = "reload_all"

(* C25, as the specification states it: "reload" makes the render thread   *)
(* consume every index of the registry once and in increasing order: the   *)
(* handler stores an index only when the one it stored before has been     *)
(* consumed, and what the render thread consumes while the handler runs is *)
(* the index the handler stored last.                                      *)
C25_ReloadAllConsumesEveryIndex ==
    [][\A t \in Threads :
          /\ IsReloadAllSet(t) => fileChanged = -1
          /\ (cmd[t].pc \in {"reload_all", "reload_all_set"} /\ IsConsume)
                => fileChanged = cmd[t].k - 1]_vars


(* C26, as the specification states it: for every argument of "sequence",  *)
(* while the render loop keeps running, the recording the command started  *)
(* ends and the polling loop of the command then returns to the console.   *)
C26_SequenceReturnsWhenRecorded ==
    (cmd["console"].pc = "seq_poll")
        ~> (cmd["console"].pc # "seq_poll" /\ ~sandbox.m_record)


---------------------------------------------------------------------------
(* SpecSweep: the watcher thread and the render loop alone, while the      *)
(* shaders and the included file are saved again.                          *)

NextSweep ==
    \/ MainSetup
    \/ RenderLoop
    \/ WatcherThread
    \/ Touch(DepA)
    \/ \E v \in WatchFragVersions : Edit(FragPath, v.source, v.includes)
    \/ \E src \in WatchVertVersions : Edit(VertPath, src, <<>>)

SpecSweep == InitWatch /\ [][NextSweep]_vars

\* the step is the watcher's test of the slot, found empty
IsSlotFoundEmpty == watcher.pc = "check" /\ watcher'.pc = "stat"

C28_OneChangeConsumedPerIteration ==
    /\ [][/\ main'.pc = "update" /\ main.pc # "update" => main.pc = "loop"
          /\ main'.pc = "changed" /\ main.pc # "changed" => main.pc = "update"
          /\ main'.pc = "lock" /\ main.pc # "lock" => main.pc = "changed"
          /\ main'.pc = "consume" /\ main.pc # "consume" => main.pc = "lock"
          /\ main'.pc = "skip" /\ main.pc # "skip"
                => main.pc \in {"changed", "consume"}]_vars
    /\ [](main.pc = "consume" <=> filesMutex = "main")
    /\ [][filesMutex = "main" =>
             \/ fileChanged' = fileChanged /\ files' = files
             \/ IsConsume]_vars
    /\ [][IsConsume =>
             /\ filesMutex' = "free"
             /\ fileChanged' = -1
             /\ main'.pc = "skip"
             /\ (fileChanged >= 0 /\ fileChanged < Len(files)) =>
                   /\ sandbox' = onFileChange(sandbox, files, disk, window,
                                              fileChanged).sb
                   /\ files' = onFileChange(sandbox, files, disk, window,
                                            fileChanged).files]_vars

\* the iteration has reloaded the edited fragment shader and is at its test
\* for skipping the frame; the vertex shader's index, stored meanwhile,
\* is left for the next iteration
C28_SecondChangeWaitsForNextIteration ==
    /\ main.pc = "skip"
    /\ filesMutex = "free"
    /\ fileChanged = 1
    /\ watcher.published = 2
    /\ "BUFFER_2" \in sandbox.m_frag_source
    /\ sandbox.m_buffers_total = 3


---------------------------------------------------------------------------
(* SpecDirty: the watcher thread and the render loop with a fragment       *)
(* shader, a vertex shader and a texture in the registry, after the first  *)
(* frame; the shaders are edited or deleted, the texture and the included  *)
(* file saved again.                                                       *)

\* the texture is as the registry has it
DirtyDisk == [ShutdownDisk EXCEPT !["t.png"].mtime = 0]

InitDirty ==
    /\ Start(DirtyDisk, "", FALSE, <<>>, FALSE, "loop")
    /\ sandbox = Ready(NewSandbox, ShutdownFiles, DirtyDisk, NewWindow).sb
    /\ files = Ready(NewSandbox, ShutdownFiles, DirtyDisk, NewWindow).files

NextDirty ==
    \/ RenderLoop
    \/ WatcherThread
    \/ Touch("t.png")
    \/ Touch(DepA)
    \/ \E v \in WatchFragVersions : Edit(FragPath, v.source, v.includes)
    \/ \E p \in {FragPath, VertPath} : Remove(p)

SpecDirty == InitDirty /\ [][NextDirty]_vars

(* C29: the consume of a change, whatever the kind of its entry and        *)
(* whether or not the file could be read, leaves the change flag set; the  *)
(* flag stays set until the iteration's test for skipping the frame, which *)
(* then goes on to render.                                                 *)
C29_ConsumedChangeRendersFrame ==
    /\ [][IsConsume => /\ sandbox'.m_change
                       /\ haveChange(sandbox')
                       /\ main'.pc = "skip"]_vars
    /\ [][(main.pc = "skip" /\ sandbox.m_change)
             => /\ sandbox'.m_change
                /\ main'.pc \in {"skip", "render"}]_vars
    /\ [][main.pc = "render" => main'.pc \in {"render", "done"}]_vars

\* the frame after a reload given up: the vertex shader was deleted, its
\* source emptied, and the iteration that consumed the change is about to
\* render
C29_FrameAfterAbortedReload ==
    /\ main.pc = "render"
    /\ ~disk[VertPath].exists
    /\ sandbox.m_vert_source = {}
    /\ sandbox.m_change
    /\ fileChanged = -1


---------------------------------------------------------------------------
(* SpecPasses: the buffer passes.  The fragment shader starts with two     *)
(* passes and is saved with one, two and three BUFFER markers; the console *)
(* adds a define and asks for the reload; the window is resized.           *)

PassLines == {"reload,s.frag", "define,A,1"}

\* the texts an edit may leave in s.frag
PassVersions ==
    { {"main", "BUFFER_0"},
      {"main", "BUFFER_0", "BUFFER_1", "u_scene"},
      {"main", "BUFFER_0", "BUFFER_1", "BUFFER_2"} }

NextPasses ==
    \/ MainSetup
    \/ RenderLoop
    \/ WindowResize
    \/ ConsoleStart
    \/ CmdReceive("console", PassLines)
    \/ CmdScan("console")
    \/ CmdExec("console")
    \/ ReloadOneFor("console")
    \/ ReloadOneSet("console")
    \/ CmdReturn("console")
    \/ \E src \in PassVersions : Edit(FragPath, src, <<DepA>>)

SpecPasses == InitWatch /\ [][NextPasses]_vars

(* C30: a reload counts the passes of the source it has loaded.  If the    *)
(* count differs from the number of buffer framebuffers, both arrays are   *)
(* built anew with that many elements, the framebuffers allocated for the  *)
(* window as it is and pass i a new shader with the one define BUFFER_i,   *)
(* loaded from the new source.  If the count is the same, the framebuffers *)
(* are the ones there were and every pass shader is loaded again in place, *)
(* keeping its other defines; a further update, the count being stable,    *)
(* leaves the framebuffers alone whatever the size of the window.          *)
C30_BuffersRebuiltOnlyOnCountChange ==
    [][IsReload =>
          LET n   == sandbox'.m_buffers_total
              old == sandbox.m_buffers_shaders
          IN  /\ n = count_buffers(sandbox'.m_frag_source)
              /\ IF n # Len(sandbox.buffers)
                 THEN /\ sandbox'.buffers =
                            [i \in 1..n |-> allocate(window, "COLOR_TEXTURE")]
                      /\ sandbox'.m_buffers_shaders =
                            [i \in 1..n |->
                               [loaded |-> TRUE,
                                frag |-> sandbox'.m_frag_source,
                                vert |-> billboard_vert,
                                defines |-> {<<"BUFFER_" \o Digits[i], "">>}]]
                 ELSE /\ sandbox'.buffers = sandbox.buffers
                      /\ sandbox'.m_buffers_shaders =
                            [i \in 1..Len(old) |->
                               [old[i] EXCEPT
                                  !.loaded = TRUE,
                                  !.frag = sandbox'.m_frag_source,
                                  !.vert = billboard_vert,
                                  !.defines = @ \cup
                                      {<<"BUFFER_" \o Digits[i], "">>}]]
              /\ \A width \in Widths :
                    _updateBuffers(sandbox',
                                   [window EXCEPT !.width = width]).buffers
                        = sandbox'.buffers]_vars

\* the edited source has two passes as before: the pass shaders, reloaded
\* in place, still have the define the console added, and the framebuffers
\* have the size of the window, which was resized
C30_SameCountReloadedInPlace ==
    /\ main.pc = "skip"
    /\ window.width = 6
    /\ fileChanged = -1
    /\ "u_scene" \in sandbox.m_frag_source
    /\ sandbox.m_buffers_total = 2
    /\ Len(sandbox.m_buffers_shaders) = 2
    /\ \A i \in 1..2 :
          /\ <<"A", "1">> \in sandbox.m_buffers_shaders[i].defines
          /\ "u_scene" \in sandbox.m_buffers_shaders[i].frag
          /\ sandbox.buffers[i].width = window.width


---------------------------------------------------------------------------
(* SpecPost: the reload engine as in SpecReload, started with or without   *)
(* --fxaa.                                                                 *)

InitPost ==
    /\ Start(ReloadDisk, "", FALSE, <<>>, FALSE, "setup")
    /\ \E fx \in BOOLEAN : sandbox = [NewSandbox EXCEPT !.fxaa = fx]
    /\ files = StartFiles

SpecPost == InitPost /\ [][NextReload]_vars

(* C31: after every reload that was not given up, post-processing is on if *)
(* the fragment source has the POSTPROCESSING marker or --fxaa was given,  *)
(* and off otherwise; with the marker the post-processing program is built *)
(* from the fragment source, with --fxaa alone from the built-in filter.   *)
C31_PostProcessingFollowsSource ==
    [][IsReload =>
          LET marked == "POSTPROCESSING" \in sandbox'.m_frag_source IN
          /\ sandbox'.m_postprocessing <=> (marked \/ sandbox.fxaa)
          /\ sandbox'.fxaa = sandbox.fxaa
          /\ marked => sandbox'.m_postprocessing_shader.frag
                          = sandbox'.m_frag_source
          /\ (~marked /\ sandbox.fxaa)
                => sandbox'.m_postprocessing_shader.frag = fxaa_frag]_vars

\* the marker was taken out of the source, without --fxaa: the reload has
\* switched off the post-processing that an earlier reload had switched on
C31_MarkerRemovedTurnsOff ==
    /\ main.pc = "skip"
    /\ fileChanged = -1
    /\ ~sandbox.fxaa
    /\ ~sandbox.m_postprocessing
    /\ sandbox.m_postprocessing_shader.loaded
    /\ "POSTPROCESSING" \notin sandbox.m_frag_source
    /\ disk[FragPath].exists
    /\ sandbox.m_frag_source = loadFromPath(disk, FragPath).source


---------------------------------------------------------------------------
(* SpecThreads: the four threads together, after the first frame.  The     *)
(* render loop, the watcher, and the console and the OSC listener with     *)
(* lines that reload, define and ask for a screenshot, while the vertex    *)
(* shader is saved once.  In one run the lines come all through the        *)
(* console or all through the OSC listener.                                *)

ThreadLines == { "reload", "define,A,1", "screenshot,a.png" }

NextThreads ==
    \/ RenderLoop
    \/ WatcherThread
    \/ ConsoleStart
    \/ \E t \in Threads :
          /\ \A u \in Threads \ {t} : cmd[u].n = 0
          /\ CmdReceive(t, ThreadLines)
    \/ \E t \in Threads : CmdScan(t)
    \/ \E t \in Threads : CmdExec(t)
    \/ \E t \in Threads : ReloadAllFor(t)
    \/ \E t \in Threads : ReloadAllSet(t)
    \/ \E t \in Threads : CmdReturn(t)
    \/ Events = 0 /\ Touch(VertPath)

SpecThreads == InitBlocking /\ [][NextThreads]_vars


\* what a shader program is built from
Program(sh) == [loaded |-> sh.loaded, frag |-> sh.frag, vert |-> sh.vert]

\* what the reload engine and the framebuffer allocations produce
EngineProducts ==
    [canvas |-> Program(sandbox.m_canvas_shader),
     post   |-> Program(sandbox.m_postprocessing_shader),
     passes |-> [i \in 1..Len(sandbox.m_buffers_shaders) |->
                    Program(sandbox.m_buffers_shaders[i])],
     total  |-> sandbox.m_buffers_total,
     postprocessing |-> sandbox.m_postprocessing,
     present |-> sandbox.present,
     buffers |-> sandbox.buffers,
     scene  |-> sandbox.m_scene_fbo,
     record |-> sandbox.m_record_fbo,
     sources |-> <<sandbox.m_frag_source, sandbox.m_vert_source>>,
     registry |-> [i \in 1..Len(files) |-> <<files[i].type, files[i].path>>]]

(* C32: the programs, the pass arrays, the framebuffers, the loaded        *)
(* sources and the entries of the registry change only in steps of the     *)
(* render thread: the consume of a change and the drawing of a frame       *)
(* (setup is called by main() before the other threads exist).  The        *)
(* watcher thread writes only its own position, the slot and an entry's    *)
(* time; the console and the OSC threads never change them.                *)
C32_EngineRunsOnRenderThread ==
    /\ [][EngineProducts' # EngineProducts
             => /\ cmd' = cmd
                /\ watcher' = watcher
                /\ main.pc \in {"consume", "render"}
                /\ main'.pc # main.pc]_vars
    /\ [][watcher' # watcher
             => /\ sandbox' = sandbox
                /\ main' = main
                /\ cmd' = cmd
                /\ Len(files') = Len(files)]_vars

\* the OSC listener asked for a screenshot and for the reload of every
\* file: the frame was saved from a record framebuffer the render thread
\* allocated, and the render thread has consumed the first index
C32_OscRequestsServedByRenderThread ==
    /\ cmd["console"].n = 0
    /\ cmd["osc"].n = 2
    /\ cmd["osc"].line = "reload"
    /\ cmd["osc"].pc = "reload_all"
    /\ cmd["osc"].k = 1
    /\ main.pc = "skip"
    /\ fileChanged = -1
    /\ sandbox.m_record_fbo.allocated
    /\ "a.png" \in sandbox.savedShots


(* C33, as the specification states it: whenever the watcher thread reads  *)
(* or writes an entry of the registry (the stat of files[i].path, the      *)
(* comparison with and the store into files[i].lastChange), i is within    *)
(* the registry as it is at that moment, also while the render thread      *)
(* replaces the dependency entries.                                        *)
C33_WatcherIndexWithinRegistry ==
    watcher.pc \in {"stat", "publish"} => watcher.i < Len(files)


(* C34, as the specification states it: whenever the render loop is at the *)
(* top of an iteration, the paths of the registry's dependency entries are *)
(* those of the fragment and the vertex shader's dependency lists, after   *)
(* reloads that were carried out and reloads that were given up.           *)
C34_DependencyEntriesMatchLists ==
    main.pc = "loop" =>
        Elements(DepPaths(files))
            = Elements(sandbox.m_frag_dependencies)
                \cup Elements(sandbox.m_vert_dependencies)


---------------------------------------------------------------------------
(* C35: a dirty mark set by a console or OSC command (the explicit flag by *)
(* update, a uniform's flag by an assignment through the fallback) is      *)
(* never cleared before a frame that started after the mark has been       *)
(* drawn: the marks that renderDone clears were all set when the frame it  *)
(* ends was drawn.                                                         *)
C35_MarkClearedOnlyAfterItsFrame ==
    [][IsRenderDone =>
         \A m \in DirtyFlags(sandbox) \ DirtyFlags(sandbox') :
             m[1] \in {"change", "uniform"} => m \in main.frame.marks]_vars


---------------------------------------------------------------------------
(* SpecRace: SpecPasses with the reload taken in two steps, the store of   *)
(* the new pass count and the rest of onFileChange, so that a define or    *)
(* undefine command of the console thread can run between them.            *)

NextRace ==
    \/ NextPasses
    \/ MainReloadTotal

SpecRace == InitWatch /\ [][NextRace]_vars

(* C36: when a command thread runs addDefine or delDefine, the pass shader *)
(* array holds at least m_buffers_total programs, so that every            *)
(* m_buffers_shaders[i] with i < m_buffers_total is within the array,      *)
(* wherever the render thread is in a reload that changes the pass count.  *)
C36_DefineIndexesWithinPassShaders ==
    \A t \in Threads :
        (/\ cmd[t].pc = "exec"
         /\ commands[cmd[t].i].begins_with \in {"define,", "undefine,"})
            => sandbox.m_buffers_total <= Len(sandbox.m_buffers_shaders)


---------------------------------------------------------------------------
(* SpecLocks: the two mutexes.  The render loop takes filesMutex for each   *)
(* change it consumes; the console and the OSC thread send the lines whose *)
(* dispatch takes a mutex: "reload,t.png" (filesMutex), "wait,1"           *)
(* (consoleMutex, by the dispatcher), "cursor,on" (consoleMutex, by the    *)
(* handler), "ok" (consoleMutex, by the fallback).  The program is         *)
(* "glslViewer s.frag s.vert t.png" with its first frame drawn.            *)
(* SpecLocksFair adds that the render thread is scheduled, and a command   *)
(* thread when it can take or give back a mutex.                           *)

LockLines == { "reload,t.png", "wait,1", "cursor,on", "ok" }

RunCmd(t) ==
    \/ CmdScan(t)
    \/ CmdExec(t)
    \/ ReloadOneFor(t)
    \/ ReloadOneSet(t)
    \/ CmdFallback(t)
    \/ CmdReturn(t)

NextLocks ==
    \/ RenderLoop
    \/ ConsoleStart
    \/ \E t \in Threads : CmdReceive(t, LockLines)
    \/ \E t \in Threads : RunCmd(t)

SpecLocks == InitDirty /\ [][NextLocks]_vars

\* the steps of runCmd at which the thread takes a mutex or gives one back
LockStep(t) ==
    \/ CmdScan(t)
    \/ CmdExec(t)
    \/ CmdFallback(t)
    \/ ReloadOneSet(t)

SpecLocksFair ==
    /\ SpecLocks
    /\ WF_vars(RenderLoop)
    /\ \A t \in Threads : WF_vars(LockStep(t))

\* the thread is at a consoleMutex.lock(): the dispatcher's for a command
\* registered with the mutex, a handler's own, or the fallback's
AtConsoleLock(t) ==
    LET c == cmd[t]
        j == nextMatch(c.line, c.i)
    IN  \/ c.pc = "scan" /\ j # 0 /\ commands[j].mutex
        \/ /\ c.pc = "exec"
           /\ \/ locksConsole(commands[c.i].begins_with, c.line)
              \/ /\ commands[c.i].begins_with = "sequence"
                 /\ Len(split(c.line, ",")) >= 3
        \/ c.pc = "fallback"

\* the thread is at a filesMutex.lock()
AtFilesLock(t) == cmd[t].pc \in {"reload_all_set", "reload_one_set"}

\* a thread is at a lock() it has not got past
SomeoneAtLock ==
    \/ \E t \in Threads : AtConsoleLock(t) \/ AtFilesLock(t)
    \/ main.pc = "lock"

---------------------------------------------------------------------------
(* C38: every framebuffer a frame is drawn into or read back from has the  *)
(* size of the window: the pass buffers, the scene framebuffer when post-  *)
(* processing or the histogram is on, and the record framebuffer when a    *)
(* screenshot or a recording is pending (drawn into by render, read back   *)
(* by renderDone), whatever resizes, reloads and histogram switches came   *)
(* before.                                                                 *)
C38_FramebuffersHaveWindowSize ==
    [][/\ IsRender =>
            /\ \A i \in 1..Len(sandbox'.buffers) :
                  /\ sandbox'.buffers[i].width = window.width
                  /\ sandbox'.buffers[i].height = window.height
            /\ (sandbox'.m_postprocessing \/ sandbox'.m_histogram) =>
                  /\ sandbox'.m_scene_fbo.width = window.width
                  /\ sandbox'.m_scene_fbo.height = window.height
            /\ (sandbox'.screenshotFile # "" \/ sandbox'.m_record) =>
                  /\ sandbox'.m_record_fbo.width = window.width
                  /\ sandbox'.m_record_fbo.height = window.height
       /\ (/\ IsRenderDone
           /\ main.frame.recorded
           /\ sandbox.screenshotFile # "" \/ sandbox.m_record) =>
            /\ sandbox.m_record_fbo.width = window.width
            /\ sandbox.m_record_fbo.height = window.height]_vars


---------------------------------------------------------------------------
(* C39: every screenshot written by renderDone (a recorded frame or the    *)
(* file of a screenshot command) is read from a record framebuffer that is *)
(* allocated and that the frame renderDone ends was drawn into, also when  *)
(* the command arrives while the frame is drawn.                           *)
C39_ScreenshotReadsThisFrame ==
    [][(/\ IsRenderDone
        /\ window.open
        /\ sandbox.m_record \/ sandbox.screenshotFile # "") =>
            /\ sandbox.m_record_fbo.allocated
            /\ main.frame.recorded]_vars


---------------------------------------------------------------------------
(* SpecFullFps: the full-frame-rate mode and the reload of every file.     *)
(* The console sends "fullFps,on", "fullFps,off" and "reload" beside the   *)
(* render loop; the first frame is drawn.                                  *)

FullFpsLines == { "fullFps,on", "fullFps,off", "reload" }

NextFullFps ==
    \/ RenderLoop
    \/ ConsoleStart
    \/ CmdReceive("console", FullFpsLines)
    \/ CmdScan("console")
    \/ CmdExec("console")
    \/ ReloadAllFor("console")
    \/ ReloadAllSet("console")
    \/ CmdFallback("console")
    \/ CmdReturn("console")

SpecFullFps == InitBlocking /\ [][NextFullFps]_vars

\* the step is the return of the handler of "reload" / "reload,all"
IsReloadAllReturn(t) ==
    /\ cmd[t].pc = "reload_all"
    /\ cmd'[t].pc \notin {"reload_all", "reload_all_set"}

(* C40: "reload" and "reload,all" raise fullFps for their own duration     *)
(* only: when the handler returns, fullFps has the value the handler found *)
(* (a mode set by "fullFps,on" survives the reload).                       *)
C40_ReloadRestoresFullFps ==
    [][\A t \in Threads :
          /\ (cmd[t].pc = "reload_all" /\ ~IsReloadAllReturn(t)) => fullFps
          /\ IsReloadAllReturn(t) => fullFps' = cmd[t].wasFullFps]_vars


---------------------------------------------------------------------------
(* The whole program: every thread, every line and every file event.  The  *)
(* specifications above are its parts, each small enough to be explored    *)
(* in full.                                                                *)

Lines ==
    DispatchLines \cup LoopLines \cup OscLines \cup ReloadLines \cup WatchLines
    \cup DepsLines \cup SceneLines \cup FrameLines \cup StartupLines

Init ==
    /\ \E out \in {"", "o.png"}, limit \in BOOLEAN, exit \in BOOLEAN,
          args \in {<<>>, <<"fps", "u_a,2">>} :
             Start(WatchDisk, out, limit, args, exit, "setup")
    /\ sandbox = NewSandbox
    /\ files = StartFiles

Next ==
    \/ MainSetup
    \/ MainLoop
    \/ MainUpdate
    \/ \E key \in {"q", "a"} : onKeyPress(key)
    \/ CloseWindow
    \/ WindowResize
    \/ MainChanged
    \/ MainLock
    \/ MainConsume
    \/ MainReloadTotal
    \/ MainSkip
    \/ MainRender
    \/ MainRenderDone
    \/ MainFinish
    \/ MainExit
    \/ MainJoin
    \/ WatcherLoop
    \/ WatcherFor
    \/ WatcherCheck
    \/ WatcherStat
    \/ WatcherPublish
    \/ ConsoleStart
    \/ \E t \in Threads : CmdReceive(t, Lines)
    \/ \E t \in Threads : CmdScan(t)
    \/ \E t \in Threads : CmdExec(t)
    \/ \E t \in Threads : ReloadAllFor(t)
    \/ \E t \in Threads : ReloadAllSet(t)
    \/ \E t \in Threads : ReloadOneFor(t)
    \/ \E t \in Threads : ReloadOneSet(t)
    \/ \E t \in Threads : SeqPoll(t)
    \/ \E t \in Threads : CmdFallback(t)
    \/ \E t \in Threads : CmdReturn(t)
    \/ \E p \in {VertPath, DepA} : Touch(p)
    \/ \E v \in FragVersions : Edit(FragPath, v.source, v.includes)
    \/ \E src \in WatchVertVersions : Edit(VertPath, src, <<>>)
    \/ \E v \in SceneVersions : Edit(FragPath, v, <<>>)
    \/ Edit(DepA, {"u_scene"}, <<>>)
    \/ \E p \in {FragPath, VertPath} : Remove(p)

Spec == Init /\ [][Next]_vars

=============================================================================
